---- MODULE Spec2Model ----
(***************************************************************************)
(* Gitr: the fork synchronizer (gitr-sync/src/fork_sync.rs, git_ops.rs)    *)
(* and the sync engine (gitr-sync/src/engine.rs).                          *)
(*                                                                         *)
(* Two specifications share the actions of sync_fork:                      *)
(*   ForkSpec  one direct call of sync_fork (gitr-cli sync.rs:160), every  *)
(*             strategy, both modes, every outcome of every git command;   *)
(*   Spec      SyncEngine::sync_all_forks over a batch of pairs, the       *)
(*             spawned blocking tasks interleaved step by step.            *)
(*                                                                         *)
(* Discovery (gitr-discover/src/reconcile.rs) has two more:                *)
(*   NormalizeSpec  normalize_url applied to URLs drawn from a bounded     *)
(*                  set, to a case variant of each, and to its own result; *)
(*   ReconcileSpec  reconcile over bounded lists of local and remote       *)
(*                  repositories, one loop iteration per step.             *)
(***************************************************************************)
EXTENDS Naturals, Integers, Sequences, FiniteSets, TLC

\* ------------------------------------------------------------------ bounds
\* Number of (repo, upstream_url) pairs handed to sync_all_forks.
NumPairs == 2
\* Largest commit count `git rev-list --count` reports.
MaxBehind == 1

VARIABLES
    pairs,        \* number of input pairs of this run (fixed by Init)
    concurrency,  \* SyncEngine.concurrency
    strategy,     \* &MergeStrategy
    dry_run,      \* bool
    repos,        \* repos[i]: the Repo of pair i (full_name, name, local_path)
    fs,           \* fs[p]: the directory p: has .git, has a remote "upstream"
    permits,      \* permits available in the tokio Semaphore
    mainPc,       \* position of sync_all_forks (or "direct" for a direct call)
    spawned,      \* number of pairs whose task has been spawned
    awaited,      \* number of join handles awaited so far
    results,      \* the Vec<ForkSyncResult> being built
    task          \* task[i]: locals of the blocking task / sync_fork call i

\* State of gitr-discover: the arguments and locals of normalize_url and of
\* reconcile.
VARIABLES
    url,             \* normalize_url: the &str it is given
    cased,           \* a URL that differs from url in letter case only
    flips,           \* number of letters of `cased` whose case was changed
    normPc,          \* "input", "once" (normalized) or "twice" (renormalized)
    normalized,      \* normalize_url(url)
    normalizedCased, \* normalize_url(cased)
    renormalized,    \* normalize_url(normalized)
    local,           \* reconcile: &[ScannedRepo]
    remote,          \* reconcile: &[RemoteRepo]
    matches,         \* reconcile: the Vec<RepoMatch> being built
    matched_remote_indices, \* reconcile: the HashSet of consumed indices
    rcPc,            \* position of reconcile
    li,              \* index of local_repo in the outer loop (1-based)
    idx,             \* idx of the enumerate() loop running (1-based)
    found            \* reconcile: let mut found

normalizeVars == <<url, cased, flips, normPc, normalized, normalizedCased, renormalized>>

reconcileVars == <<local, remote, matches, matched_remote_indices, rcPc, li, idx, found>>

\* State of the scanner (gitr-discover/src/scanner.rs).
VARIABLES
    tree,            \* the directory tree under root: tree[n] describes entry n
    max_depth,       \* scan_directory: max_depth
    walk,            \* the WalkDir iterator: the entries still to come, next first
    scan_repos,      \* scan_directory: the Vec<ScannedRepo> being built
    scanPc,          \* position of scan_directory
    content,         \* parse_git_config: content.lines()
    line_no,         \* number of lines the loop has consumed
    current_remote,  \* parse_git_config: Option<String>
    remotes,         \* parse_git_config: the Vec<ScannedRemote> being built
    parsePc          \* position of parse_git_config

scanVars == <<tree, max_depth, walk, scan_repos, scanPc>>

parseVars == <<content, line_no, current_remote, remotes, parsePc>>

\* State of a value on its way through persistence (gitr-db/src/ops.rs):
\* written with to_string, read back with parse.
VARIABLES
    value,           \* the enum value written
    text,            \* the TEXT column
    read_back,       \* the value the row is read as
    codecPc          \* "value", "written" or "read"

codecVars == <<value, text, read_back, codecPc>>

discover == <<normalizeVars, reconcileVars, scanVars, parseVars, codecVars>>

syncVars == <<pairs, concurrency, strategy, dry_run, repos, fs, permits, mainPc,
              spawned, awaited, results, task>>

vars == <<syncVars, discover>>

Units == 1..pairs

\* While fork synchronisation runs, nothing of gitr-discover runs.
NormalizeIdle ==
    /\ url = << >>
    /\ cased = << >>
    /\ flips = 0
    /\ normPc = "idle"
    /\ normalized = << >>
    /\ normalizedCased = << >>
    /\ renormalized = << >>

ReconcileIdle ==
    /\ local = << >>
    /\ remote = << >>
    /\ matches = << >>
    /\ matched_remote_indices = {}
    /\ rcPc = "idle"
    /\ li = 0
    /\ idx = 0
    /\ found = FALSE

ScanIdle ==
    /\ tree = << >>
    /\ max_depth = 0
    /\ walk = << >>
    /\ scan_repos = << >>
    /\ scanPc = "idle"

ParseIdle ==
    /\ content = << >>
    /\ line_no = 0
    /\ current_remote = [some |-> FALSE]
    /\ remotes = << >>
    /\ parsePc = "idle"

CodecIdle ==
    /\ value = "idle"
    /\ text = "idle"
    /\ read_back = "idle"
    /\ codecPc = "idle"

\* Nothing of the scanner or of persistence runs.
RestIdle == ScanIdle /\ ParseIdle /\ CodecIdle


\* ------------------------------------------------------------- data model
\* MergeStrategy (sync_link.rs)
MergeStrategy == {"FastForward", "Merge", "Rebase", "ForcePush"}

\* SyncStatus (sync_state.rs)
SyncStatus == {"Success", "PartialSuccess", "Failed", "Skipped"}

\* A value not yet there (a local before its initialisation).
None == "None"

\* Option<PathBuf>: NoPath is None; a directory is a pair <<parent, name>>.
NoPath == << >>
ExplicitDir == <<"elsewhere", 0>>

\* clone_base_dir.join(&repo.name)
Join(base, name) == <<base, name>>

\* fork_sync.rs: let local_path = match &repo.local_path { Some(p) => p, None => base.join(name) }
local_path(repo) ==
    IF repo.local_path # NoPath THEN repo.local_path ELSE Join("clone_base", repo.name)

PathOf(i) == local_path(repos[i])

\* SyncRecord::new: counters 0, status Success, no errors.
SyncRecord_new(repo_id) ==
    [ repo_id             |-> repo_id,
      branches_synced     |-> 0,
      branches_failed     |-> 0,
      commits_transferred |-> 0,
      status              |-> "Success",
      errors              |-> << >> ]

\* GitrError values raised by git_ops; only three variants are produced there.
GitError(message) == [kind |-> "GitError", message |-> message]
FastForwardFailed(message) == [kind |-> "FastForwardFailed", message |-> message]
MergeConflict(message) == [kind |-> "MergeConflict", message |-> message]

\* #[error("...")] of GitrError: the Display text is the variant's tag followed
\* by its message; a text is modelled as the pair <<tag, message>>.
to_string(e) ==
    CASE e.kind = "GitError"          -> <<"git error: ", e.message>>
      [] e.kind = "FastForwardFailed" -> <<"fast-forward failed on branch ", e.message>>
      [] e.kind = "MergeConflict"     -> <<"merge conflict on branch ", e.message>>

\* Result<u32, GitrError>
Ok(n) == [ok |-> TRUE, val |-> n]
Err(e) == [ok |-> FALSE, err |-> e]
Pending == [ok |-> FALSE, err |-> None]

\* ---------------------------------------------------- outcomes of commands
\* git_ok: the command exits 0, or it fails (non-zero exit or not runnable).
GitOkOutcomes == {"ok", "fail"}
\* git(): exit 0, non-zero exit, or the process could not be run.
GitOutcomes == {"ok", "nonzero", "spawn_failed"}
\* git remote add: as git(), the non-zero exit with or without "already exists".
RemoteAddOutcomes == {"ok", "already_exists", "nonzero", "spawn_failed"}
\* git rev-list --count: fails, prints something that is no number, or a count.
RevListOutcomes ==
    {<<"fail", 0>>, <<"garbage", 0>>} \cup {<<"count", n>> : n \in 0..MaxBehind}

\* Mutant of rev_list_count: output that is no number is an error.
rev_list_count_strict(o) ==
    CASE o[1] = "fail"    -> Err(GitError("git rev-list --count failed"))
      [] o[1] = "garbage" -> Err(GitError("git rev-list --count: not a number"))
      [] o[1] = "count"   -> Ok(o[2])

\* git_ops::rev_list_count: Ok(stdout.trim().parse().unwrap_or(0)), Err on failure
rev_list_count(o) ==
    CASE o[1] = "fail"    -> Err(GitError("git rev-list --count failed"))
      [] o[1] = "garbage" -> Ok(0)
      [] o[1] = "count"   -> Ok(o[2])

\* Result::unwrap_or
unwrap_or(r, d) == IF r.ok THEN r.val ELSE d

\* Mutant of merge_ff: the exit status of `git merge --ff-only` is not looked at.
merge_ff_ignores_exit(o) ==
    CASE o = "ok"           -> Ok(0)
      [] o = "nonzero"      -> Ok(0)
      [] o = "spawn_failed" -> Err(GitError("failed to run git merge --ff-only"))

\* git_ops::merge_ff
merge_ff(o) ==
    CASE o = "ok"           -> Ok(0)
      [] o = "nonzero"      -> Err(FastForwardFailed("upstream/branch"))
      [] o = "spawn_failed" -> Err(GitError("failed to run git merge --ff-only"))

\* git_ops::merge
merge(o) ==
    CASE o = "ok"           -> Ok(0)
      [] o = "nonzero"      -> Err(MergeConflict("upstream/branch"))
      [] o = "spawn_failed" -> Err(GitError("failed to run git merge --no-edit"))

\* git_ops::rebase: the result of the rebase command (the abort that follows a
\* non-zero exit is in RebaseWithAbort)
rebase(o) ==
    CASE o = "ok"           -> Ok(0)
      [] o = "nonzero"      -> Err(MergeConflict("upstream/branch"))
      [] o = "spawn_failed" -> Err(GitError("failed to run git rebase"))

\* Mutant of remote_add: "already exists" is an error like any other.
remote_add_strict(o) ==
    CASE o = "ok"             -> Ok(0)
      [] o = "already_exists" -> Err(GitError("failed to add remote upstream"))
      [] o = "nonzero"        -> Err(GitError("failed to add remote upstream"))
      [] o = "spawn_failed"   -> Err(GitError("failed to run git remote add"))

\* git_ops::remote_add
remote_add(o) ==
    CASE o = "ok"             -> Ok(0)
      [] o = "already_exists" -> Ok(0)
      [] o = "nonzero"        -> Err(GitError("failed to add remote upstream"))
      [] o = "spawn_failed"   -> Err(GitError("failed to run git remote add"))

\* git_ok based operations: clone, remote (list), fetch, checkout, reset, push
git_ok(cmd, o) == IF o = "ok" THEN Ok(0) ELSE Err(GitError(cmd))


\* ------------------------------------------------------- task-local state
\* Locals of one blocking task: the closure of engine.rs:49-58 and the
\* sync_fork call inside it.
\*   pc      position in the closure / in sync_fork / in sync_fork_inner
\*   permit  what `let _permit = sem.acquire_owned()` holds
\*   record  the SyncRecord of sync_fork
\*   inner   the value sync_fork_inner returned (Pending until it returns)
\*   behind  the behind count of step 4
\*   calls   the git commands run so far, in order, each <<command, outcome, n>>
\*           (n: the count printed by rev-list, 0 for the other commands)
\*   dir0    the state of the resolved directory when the run began
\*   rank    how many tasks had finished when this one finished
\*   raised  the errors returned by git_ops functions so far, in order
\*   writes  how many times record.status has been assigned after construction
\*   ret     the ForkSyncResult returned by sync_fork (None before)
NewTask(pc0, d0) ==
    [ pc     |-> pc0,
      dir0   |-> d0,
      rank   |-> 0,
      permit |-> None,
      record |-> None,
      inner  |-> Pending,
      behind |-> 0,
      calls  |-> << >>,
      raised |-> << >>,
      writes |-> 0,
      ret    |-> None ]

\* Positions inside sync_fork (between its entry and its return).
InsidePcs ==
    { "check_git", "clone", "remote_list", "remote_add", "fetch", "rev_list",
      "checkout", "merge_ff", "merge", "rebase", "fp_checkout", "reset", "push",
      "match" }

Inside(i) == task[i].pc \in InsidePcs

\* Mutant of Try: the error is noted but the run goes on to the next step.
Try_continues(t, op, o, r, next) ==
    IF r.ok
    THEN [t EXCEPT !.calls = Append(@, <<op, o, 0>>), !.pc = next]
    ELSE [t EXCEPT !.calls = Append(@, <<op, o, 0>>), !.raised = Append(@, r.err),
                   !.inner = r, !.pc = next]

\* Mutant of Try: the failing step marks the record Failed itself, before the
\* match at the end of sync_fork assigns the status again.
Try_marks_status(t, op, o, r, next) ==
    IF r.ok
    THEN [t EXCEPT !.calls = Append(@, <<op, o, 0>>), !.pc = next]
    ELSE [t EXCEPT !.calls = Append(@, <<op, o, 0>>), !.raised = Append(@, r.err),
                   !.record.status = "Failed", !.writes = @ + 1,
                   !.inner = r, !.pc = "match"]

\* Mutant of Try: a failing step is followed by `git reset --hard` to undo
\* what the run did before the error is returned.
Try_rolls_back(t, op, o, r, next) ==
    IF r.ok
    THEN [t EXCEPT !.calls = Append(@, <<op, o, 0>>), !.pc = next]
    ELSE [t EXCEPT !.calls = @ \o << <<op, o, 0>>, <<"reset", "ok", 0>> >>,
                   !.raised = Append(@, r.err),
                   !.inner = r, !.pc = "match"]

\* The `?` operator after a git_ops call `op` with result r: on Ok continue at
\* `next`, on Err return the error from sync_fork_inner.
Try(t, op, o, r, next) ==
    IF r.ok
    THEN [t EXCEPT !.calls = Append(@, <<op, o, 0>>), !.pc = next]
    ELSE [t EXCEPT !.calls = Append(@, <<op, o, 0>>), !.raised = Append(@, r.err),
                   !.inner = r, !.pc = "match"]

\* Mutant of AfterCheckGit: a live run clones whether or not .git exists.
AfterCheckGit_always_clones(exists, dry) ==
    IF dry THEN (IF exists THEN "remote_list" ELSE "return_ok_0") ELSE "clone"

\* Mutant of AfterCheckGit: a dry run without .git goes on to the remote
\* listing instead of returning.
AfterCheckGit_dry_goes_on(exists, dry) ==
    IF exists THEN "remote_list" ELSE IF dry THEN "remote_list" ELSE "clone"

\* fork_sync.rs:82-89: where sync_fork_inner goes after the .git test
AfterCheckGit(exists, dry) ==
    IF exists THEN "remote_list" ELSE IF dry THEN "return_ok_0" ELSE "clone"

\* Mutant of AfterRemoteList: the dry-run guards of steps 2 and 3 are missing.
AfterRemoteList_ignores_dry(listed, dry) ==
    IF listed THEN "fetch" ELSE "remote_add"

\* fork_sync.rs:93-104: where it goes after a successful remote listing
AfterRemoteList(listed, dry) ==
    IF dry THEN "rev_list" ELSE IF listed THEN "fetch" ELSE "remote_add"

\* Mutant of AfterBehind: the dry run uses `?` like the live run.
AfterBehind_propagates(r, dry) ==
    IF ~r.ok THEN <<"return", r>>
    ELSE IF dry THEN <<"return", Ok(r.val)>>
    ELSE IF r.val = 0 THEN <<"return", Ok(0)>>
    ELSE <<"continue", Ok(r.val)>>

\* Mutant of AfterBehind: the `if behind == 0 { return Ok(0) }` is missing.
AfterBehind_no_zero_check(r, dry) ==
    IF dry THEN <<"return", Ok(unwrap_or(r, 0))>>
    ELSE IF ~r.ok THEN <<"return", r>>
    ELSE <<"continue", Ok(r.val)>>

\* fork_sync.rs:110-124: what the behind count r leads to: a return value of
\* sync_fork_inner (<<"return", result>>) or the checkout (<<"continue", n>>)
AfterBehind(r, dry) ==
    IF dry THEN <<"return", Ok(unwrap_or(r, 0))>>
    ELSE IF ~r.ok THEN <<"return", r>>
    ELSE IF r.val = 0 THEN <<"return", Ok(0)>>
    ELSE <<"continue", Ok(r.val)>>

\* return Ok(n) from sync_fork_inner
ReturnOk(t, n) == [t EXCEPT !.inner = Ok(n), !.pc = "match"]

\* fork_sync.rs:136-159: the position of the strategy arm after checkout
StrategyPc(s) ==
    CASE s = "FastForward" -> "merge_ff"
      [] s = "Merge"       -> "merge"
      [] s = "Rebase"      -> "rebase"
      [] s = "ForcePush"   -> "fp_checkout"

\* --------------------------------------------------------------- sync_fork
\* fork_sync.rs:36-40: record = SyncRecord::new(repo.id); call sync_fork_inner,
\* which resolves local_path.
sync_fork_enter(i) ==
    /\ task[i].pc = "call"
    /\ task' = [task EXCEPT ![i].record = SyncRecord_new(i), ![i].pc = "check_git"]
    /\ UNCHANGED <<discover, pairs, concurrency, strategy, dry_run, repos, fs, permits,
                   mainPc, spawned, awaited, results>>

\* fork_sync.rs:81-89: if !local_path.join(".git").exists() { dry-run: return Ok(0) }
CheckGitDir(i) ==
    /\ task[i].pc = "check_git"
    /\ LET to == AfterCheckGit(fs[PathOf(i)].git, dry_run)
       IN  task' = [task EXCEPT ![i] =
                      IF to = "return_ok_0" THEN ReturnOk(@, 0) ELSE [@ EXCEPT !.pc = to]]
    /\ UNCHANGED <<discover, pairs, concurrency, strategy, dry_run, repos, fs, permits,
                   mainPc, spawned, awaited, results>>

\* fork_sync.rs:88: git_ops::clone(&repo.clone_url, &local_path)?
Clone(i) ==
    /\ task[i].pc = "clone"
    /\ \E o \in GitOkOutcomes :
         /\ task' = [task EXCEPT ![i] = Try(@, "clone", o, git_ok("git clone failed", o), "remote_list")]
         /\ fs' = IF o = "ok"
                  THEN [fs EXCEPT ![PathOf(i)] = [git |-> TRUE, upstream |-> FALSE]]
                  ELSE fs
    /\ UNCHANGED <<discover, pairs, concurrency, strategy, dry_run, repos, permits,
                   mainPc, spawned, awaited, results>>

\* fork_sync.rs:92-99: remotes = remote_list(&local_path)?; is "upstream" listed
RemoteList(i) ==
    /\ task[i].pc = "remote_list"
    /\ \E o \in GitOkOutcomes :
         task' = [task EXCEPT ![i] =
                     Try(@, "remote", o, git_ok("git remote failed", o),
                         AfterRemoteList(fs[PathOf(i)].upstream, dry_run))]
    /\ UNCHANGED <<discover, pairs, concurrency, strategy, dry_run, repos, fs, permits,
                   mainPc, spawned, awaited, results>>

\* fork_sync.rs:97: git_ops::remote_add(&local_path, "upstream", url)?
RemoteAdd(i) ==
    /\ task[i].pc = "remote_add"
    /\ \E o \in RemoteAddOutcomes :
         /\ task' = [task EXCEPT ![i] = Try(@, "remote_add", o, remote_add(o), "fetch")]
         /\ fs' = IF o \in {"ok", "already_exists"}
                  THEN [fs EXCEPT ![PathOf(i)].upstream = TRUE]
                  ELSE fs
    /\ UNCHANGED <<discover, pairs, concurrency, strategy, dry_run, repos, permits,
                   mainPc, spawned, awaited, results>>

\* fork_sync.rs:102-104: if !dry_run { git_ops::fetch(&local_path, "upstream")? }
Fetch(i) ==
    /\ task[i].pc = "fetch"
    /\ \E o \in GitOkOutcomes :
         task' = [task EXCEPT ![i] =
                     Try(@, "fetch", o, git_ok("git fetch upstream --prune failed", o), "rev_list")]
    /\ UNCHANGED <<discover, pairs, concurrency, strategy, dry_run, repos, fs, permits,
                   mainPc, spawned, awaited, results>>

\* fork_sync.rs:110-124: dry-run: return Ok(rev_list_count(..).unwrap_or(0));
\* live: behind = rev_list_count(..)?; if behind == 0 { return Ok(0) }
BehindCount(i) ==
    /\ task[i].pc = "rev_list"
    /\ \E o \in RevListOutcomes :
         LET r == rev_list_count(o)
             t == task[i]
             c == [t EXCEPT !.calls = Append(@, <<"rev_list", o[1], o[2]>>),
                            !.raised = IF r.ok THEN @ ELSE Append(@, r.err)]
             a == AfterBehind(r, dry_run)
         IN  task' = [task EXCEPT ![i] =
                 IF a[1] = "return"
                 THEN [c EXCEPT !.behind = unwrap_or(r, 0), !.inner = a[2], !.pc = "match"]
                 ELSE [c EXCEPT !.behind = a[2].val, !.pc = "checkout"]]
    /\ UNCHANGED <<discover, pairs, concurrency, strategy, dry_run, repos, fs, permits,
                   mainPc, spawned, awaited, results>>

\* fork_sync.rs:133: git_ops::checkout(&local_path, branch)?
Checkout(i) ==
    /\ task[i].pc = "checkout"
    /\ \E o \in GitOkOutcomes :
         task' = [task EXCEPT ![i] =
                     Try(@, "checkout", o, git_ok("git checkout failed", o), StrategyPc(strategy))]
    /\ UNCHANGED <<discover, pairs, concurrency, strategy, dry_run, repos, fs, permits,
                   mainPc, spawned, awaited, results>>

\* fork_sync.rs:137: MergeStrategy::FastForward => git_ops::merge_ff(..)?
StrategyFastForward(i) ==
    /\ task[i].pc = "merge_ff"
    /\ \E o \in GitOutcomes :
         task' = [task EXCEPT ![i] = Try(@, "merge_ff", o, merge_ff(o), "push")]
    /\ UNCHANGED <<discover, pairs, concurrency, strategy, dry_run, repos, fs, permits,
                   mainPc, spawned, awaited, results>>

\* fork_sync.rs:138: MergeStrategy::Merge => git_ops::merge(..)?
StrategyMerge(i) ==
    /\ task[i].pc = "merge"
    /\ \E o \in GitOutcomes :
         task' = [task EXCEPT ![i] = Try(@, "merge", o, merge(o), "push")]
    /\ UNCHANGED <<discover, pairs, concurrency, strategy, dry_run, repos, fs, permits,
                   mainPc, spawned, awaited, results>>

\* Mutant of RebaseWithAbort: a non-zero exit returns MergeConflict at once,
\* without `git rebase --abort`.
RebaseWithAbort_no_abort(t, o, a) == Try(t, "rebase", o, rebase(o), "push")

\* git_ops.rs:104-115: the whole of git_ops::rebase followed by `?`. After a
\* non-zero exit `let _ = git(dir, &["rebase", "--abort"])` runs with outcome a;
\* an Err of that call (git could not be run) is dropped, then MergeConflict
\* is returned.
RebaseWithAbort(t, o, a) ==
    IF o = "nonzero"
    THEN LET aborted ==
                 [t EXCEPT !.calls = @ \o << <<"rebase", o, 0>>, <<"rebase_abort", a, 0>> >>,
                           !.raised = IF a = "spawn_failed"
                                      THEN Append(@, GitError("failed to run git rebase --abort"))
                                      ELSE @]
         IN  [aborted EXCEPT !.raised = Append(@, rebase(o).err),
                             !.inner = rebase(o), !.pc = "match"]
    ELSE Try(t, "rebase", o, rebase(o), "push")

\* fork_sync.rs:139 and git_ops.rs:104-115: MergeStrategy::Rebase =>
\* git_ops::rebase(..)?; on a non-zero exit rebase runs `git rebase --abort`
\* and ignores its result (let _ = ...) before it returns MergeConflict.
StrategyRebase(i) ==
    /\ task[i].pc = "rebase"
    /\ \E o \in GitOutcomes, a \in GitOutcomes :
         /\ o # "nonzero" => a = "ok"
         /\ task' = [task EXCEPT ![i] = RebaseWithAbort(@, o, a)]
    /\ UNCHANGED <<discover, pairs, concurrency, strategy, dry_run, repos, fs, permits,
                   mainPc, spawned, awaited, results>>

\* fork_sync.rs:142: MergeStrategy::ForcePush => git_ops::checkout(..)?
ForcePushCheckout(i) ==
    /\ task[i].pc = "fp_checkout"
    /\ \E o \in GitOkOutcomes :
         task' = [task EXCEPT ![i] =
                     Try(@, "checkout", o, git_ok("git checkout failed", o), "reset")]
    /\ UNCHANGED <<discover, pairs, concurrency, strategy, dry_run, repos, fs, permits,
                   mainPc, spawned, awaited, results>>

\* fork_sync.rs:143-157: git reset --hard <upstream_ref>
ForcePushReset(i) ==
    /\ task[i].pc = "reset"
    /\ \E o \in GitOkOutcomes :
         task' = [task EXCEPT ![i] =
                     Try(@, "reset", o, git_ok("git reset --hard failed", o), "push")]
    /\ UNCHANGED <<discover, pairs, concurrency, strategy, dry_run, repos, fs, permits,
                   mainPc, spawned, awaited, results>>

\* Mutant of Push: the value returned after the push is a fresh count of the
\* commits behind, which is 0 once the strategy step has been applied.
Push_recounts(i) ==
    /\ task[i].pc = "push"
    /\ \E o \in GitOkOutcomes :
         LET t == Try(task[i], "push", o, git_ok("git push origin failed", o), "match")
         IN  task' = [task EXCEPT ![i] = IF o = "ok" THEN [t EXCEPT !.inner = Ok(0)] ELSE t]
    /\ UNCHANGED <<discover, pairs, concurrency, strategy, dry_run, repos, fs, permits,
                   mainPc, spawned, awaited, results>>

\* fork_sync.rs:162-164: git_ops::push(&local_path, "origin", branch)?; Ok(behind)
Push(i) ==
    /\ task[i].pc = "push"
    /\ \E o \in GitOkOutcomes :
         LET t == Try(task[i], "push", o, git_ok("git push origin failed", o), "match")
         IN  task' = [task EXCEPT ![i] = IF o = "ok" THEN [t EXCEPT !.inner = Ok(t.behind)] ELSE t]
    /\ UNCHANGED <<discover, pairs, concurrency, strategy, dry_run, repos, fs, permits,
                   mainPc, spawned, awaited, results>>

\* Mutant of MatchResult: the Err arm forgets record.errors.push(e.to_string()).
MatchResult_drops_message(rec, r, dry) ==
    IF r.ok
    THEN [rec EXCEPT !.branches_synced = 1,
                     !.commits_transferred = r.val,
                     !.status = IF dry THEN "Skipped" ELSE "Success"]
    ELSE [rec EXCEPT !.branches_failed = 1,
                     !.status = "Failed"]

\* Mutant of MatchResult: the Err arm counts the branch as synced as well.
MatchResult_counts_both(rec, r, dry) ==
    IF r.ok
    THEN [rec EXCEPT !.branches_synced = 1,
                     !.commits_transferred = r.val,
                     !.status = IF dry THEN "Skipped" ELSE "Success"]
    ELSE [rec EXCEPT !.branches_synced = 1,
                     !.branches_failed = 1,
                     !.status = "Failed",
                     !.errors = Append(@, to_string(r.err))]

\* fork_sync.rs:44-59: match result { Ok(commits) => .., Err(e) => .. }
MatchResult(rec, r, dry) ==
    IF r.ok
    THEN [rec EXCEPT !.branches_synced = 1,
                     !.commits_transferred = r.val,
                     !.status = IF dry THEN "Skipped" ELSE "Success"]
    ELSE [rec EXCEPT !.branches_failed = 1,
                     !.status = "Failed",
                     !.errors = Append(@, to_string(r.err))]

\* fork_sync.rs:42-65: the match on the inner result, then the ForkSyncResult
sync_fork_return(i) ==
    /\ task[i].pc = "match"
    /\ LET rec == MatchResult(task[i].record, task[i].inner, dry_run)
       IN  task' = [task EXCEPT ![i].record = rec,
                                ![i].writes = @ + 1,
                                ![i].ret = [repo_full_name |-> repos[i].full_name,
                                            record |-> rec,
                                            dry_run |-> dry_run],
                                ![i].pc = "returned"]
    /\ UNCHANGED <<discover, pairs, concurrency, strategy, dry_run, repos, fs, permits,
                   mainPc, spawned, awaited, results>>

\* Every step of one sync_fork call.
SyncForkStep(i) ==
    \/ sync_fork_enter(i)
    \/ CheckGitDir(i)
    \/ Clone(i)
    \/ RemoteList(i)
    \/ RemoteAdd(i)
    \/ Fetch(i)
    \/ BehindCount(i)
    \/ Checkout(i)
    \/ StrategyFastForward(i)
    \/ StrategyMerge(i)
    \/ StrategyRebase(i)
    \/ ForcePushCheckout(i)
    \/ ForcePushReset(i)
    \/ Push(i)
    \/ sync_fork_return(i)

\* ------------------------------------------------ the inputs and the disk
Names == 1..NumPairs

\* The directories a run can resolve to.
AllPaths == {Join("clone_base", n) : n \in Names} \cup {ExplicitDir}

\* A directory has no .git, a fresh clone, or a clone with the upstream remote.
DirStates ==
    { [git |-> FALSE, upstream |-> FALSE],
      [git |-> TRUE,  upstream |-> FALSE],
      [git |-> TRUE,  upstream |-> TRUE] }

\* Repo (repo.rs): the fields sync reads. full_name identifies the pair.
RepoOf(i, name, lp) == [full_name |-> i, name |-> name, local_path |-> lp]

\* ------------------------------------------------- ForkSpec: a direct call
\* gitr-cli sync.rs:159-160: fork_sync::sync_fork(repo, &upstream_url, ..)
ForkInit ==
    /\ pairs = 1
    /\ concurrency = 1
    /\ strategy \in MergeStrategy
    /\ dry_run \in BOOLEAN
    /\ \E lp \in {NoPath, ExplicitDir} : repos = [i \in 1..1 |-> RepoOf(1, 1, lp)]
    /\ fs \in [AllPaths -> DirStates]
    /\ \A p \in AllPaths : p # PathOf(1) => fs[p] = [git |-> FALSE, upstream |-> FALSE]
    /\ permits = 0
    /\ mainPc = "direct"
    /\ spawned = 0
    /\ awaited = 0
    /\ results = << >>
    /\ task = [i \in 1..1 |-> NewTask("call", fs[PathOf(i)])]
    /\ NormalizeIdle
    /\ ReconcileIdle
    /\ RestIdle

ForkNext ==
    \/ \E i \in Units : sync_fork_enter(i)
    \/ \E i \in Units : CheckGitDir(i)
    \/ \E i \in Units : Clone(i)
    \/ \E i \in Units : RemoteList(i)
    \/ \E i \in Units : RemoteAdd(i)
    \/ \E i \in Units : Fetch(i)
    \/ \E i \in Units : BehindCount(i)
    \/ \E i \in Units : Checkout(i)
    \/ \E i \in Units : StrategyFastForward(i)
    \/ \E i \in Units : StrategyMerge(i)
    \/ \E i \in Units : StrategyRebase(i)
    \/ \E i \in Units : ForcePushCheckout(i)
    \/ \E i \in Units : ForcePushReset(i)
    \/ \E i \in Units : Push(i)
    \/ \E i \in Units : sync_fork_return(i)

ForkSpec == ForkInit /\ [][ForkNext]_vars

\* ------------------------------------------- Spec: SyncEngine::sync_all_forks
\* engine.rs:30: Semaphore::new(self.concurrency)
Semaphore_new(n) == n

\* engine.rs:50: let _permit = sem.acquire_owned();
\* acquire_owned is an async fn: the call builds a future and the closure of
\* spawn_blocking never polls or awaits it, so no permit leaves the semaphore;
\* _permit holds the unpolled future until the closure ends.
acquire_owned(sem) == [sem |-> sem, permit |-> "unpolled_future"]

\* Mutant of push_joined: the result of a failed unit is not collected.
push_joined_drops_failed(res, joined) ==
    IF joined.record.status = "Failed" THEN res ELSE Append(res, joined)

\* engine.rs:64-66: if let Ok(result) = handle.await { results.push(result) }
\* (a JoinError needs a panicking or cancelled task: the closure does neither)
push_joined(res, joined) == Append(res, joined)

\* engine.rs:39-60: the map over the pairs, one tokio::task::spawn_blocking per
\* pair, in input order; collect() ends the loop.
Spawn ==
    /\ mainPc = "spawn"
    /\ spawned < pairs
    /\ task[spawned + 1].pc = "idle"
    /\ task' = [task EXCEPT ![spawned + 1].pc = "queued"]
    /\ spawned' = spawned + 1
    /\ mainPc' = IF spawned + 1 = pairs THEN "await" ELSE "spawn"
    /\ UNCHANGED <<discover, pairs, concurrency, strategy, dry_run, repos, fs, permits,
                   awaited, results>>

\* engine.rs:49-50: the blocking pool starts the closure; acquire_owned()
TaskAcquire(i) ==
    /\ task[i].pc = "queued"
    /\ LET a == acquire_owned(permits)
       IN  /\ permits' = a.sem
           /\ task' = [task EXCEPT ![i].permit = a.permit, ![i].pc = "call"]
    /\ UNCHANGED <<discover, pairs, concurrency, strategy, dry_run, repos, fs,
                   mainPc, spawned, awaited, results>>

\* engine.rs:52-58: pb.finish_with_message(..); result; _permit is dropped
TaskFinish(i) ==
    /\ mainPc # "direct"
    /\ task[i].pc = "returned"
    /\ permits' = IF task[i].permit = "permit" THEN permits + 1 ELSE permits
    /\ task' = [task EXCEPT ![i].permit = "dropped", ![i].pc = "done",
                             ![i].rank = Cardinality({j \in Units : task[j].pc = "done"})]
    /\ UNCHANGED <<discover, pairs, concurrency, strategy, dry_run, repos, fs,
                   mainPc, spawned, awaited, results>>

\* Mutant of Await: the loop over the handles ends at the first Failed result.
Await_stops_at_failure ==
    /\ mainPc = "await"
    /\ awaited < pairs
    /\ task[awaited + 1].pc = "done"
    /\ results' = push_joined(results, task[awaited + 1].ret)
    /\ awaited' = awaited + 1
    /\ mainPc' = IF awaited + 1 = pairs \/ task[awaited + 1].ret.record.status = "Failed"
                 THEN "returned" ELSE "await"
    /\ UNCHANGED <<discover, pairs, concurrency, strategy, dry_run, repos, fs, permits,
                   spawned, task>>

\* Mutant of Await: the results are collected as the units finish, not in
\* spawn order.
Await_in_finish_order ==
    /\ mainPc = "await"
    /\ awaited < pairs
    /\ \E i \in Units :
         /\ task[i].pc = "done"
         /\ task[i].rank = awaited
         /\ results' = push_joined(results, task[i].ret)
    /\ awaited' = awaited + 1
    /\ mainPc' = IF awaited + 1 = pairs THEN "returned" ELSE "await"
    /\ UNCHANGED <<discover, pairs, concurrency, strategy, dry_run, repos, fs, permits,
                   spawned, task>>

\* engine.rs:62-67: for handle in handles { handle.await .. }, in spawn order
Await ==
    /\ mainPc = "await"
    /\ awaited < pairs
    /\ task[awaited + 1].pc = "done"
    /\ results' = push_joined(results, task[awaited + 1].ret)
    /\ awaited' = awaited + 1
    /\ mainPc' = IF awaited + 1 = pairs THEN "returned" ELSE "await"
    /\ UNCHANGED <<discover, pairs, concurrency, strategy, dry_run, repos, fs, permits,
                   spawned, task>>

\* The batch: NumPairs pairs with distinct full names; two pairs may still
\* resolve to one directory (equal repo names, or equal explicit paths).
Init ==
    /\ pairs = NumPairs
    /\ concurrency \in 1..NumPairs
    /\ strategy \in MergeStrategy
    /\ dry_run \in BOOLEAN
    /\ \E names \in [1..NumPairs -> Names] :
         /\ \A i \in 1..NumPairs : names[i] <= i
         /\ repos = [i \in 1..NumPairs |-> RepoOf(i, names[i], NoPath)]
    /\ \E d \in DirStates : fs = [p \in AllPaths |-> d]
    /\ permits = Semaphore_new(concurrency)
    /\ mainPc = "spawn"
    /\ spawned = 0
    /\ awaited = 0
    /\ results = << >>
    /\ task = [i \in 1..NumPairs |-> NewTask("idle", fs[PathOf(i)])]
    /\ NormalizeIdle
    /\ ReconcileIdle
    /\ RestIdle

Next ==
    \/ Spawn
    \/ \E i \in Units : TaskAcquire(i)
    \/ \E i \in Units : sync_fork_enter(i)
    \/ \E i \in Units : CheckGitDir(i)
    \/ \E i \in Units : Clone(i)
    \/ \E i \in Units : RemoteList(i)
    \/ \E i \in Units : RemoteAdd(i)
    \/ \E i \in Units : Fetch(i)
    \/ \E i \in Units : BehindCount(i)
    \/ \E i \in Units : Checkout(i)
    \/ \E i \in Units : StrategyFastForward(i)
    \/ \E i \in Units : StrategyMerge(i)
    \/ \E i \in Units : StrategyRebase(i)
    \/ \E i \in Units : ForcePushCheckout(i)
    \/ \E i \in Units : ForcePushReset(i)
    \/ \E i \in Units : Push(i)
    \/ \E i \in Units : sync_fork_return(i)
    \/ \E i \in Units : TaskFinish(i)
    \/ Await

Spec == Init /\ [][Next]_vars


\* ------------------------------------- LiveSpec: the batch under fair scheduling
\* A batch whose pairs resolve to distinct directories.
LiveInit ==
    /\ Init
    /\ \A i, j \in Units : i # j => PathOf(i) # PathOf(j)

\* What the blocking pool runs for unit i: the closure of engine.rs:49-58.
TaskStep(i) ==
    \/ TaskAcquire(i)
    \/ SyncForkStep(i)
    \/ TaskFinish(i)

\* The tokio runtime polls sync_all_forks when it can go on, and the blocking
\* pool gives every spawned closure a thread; every git child process exits.
Fairness ==
    /\ WF_vars(Spawn)
    /\ WF_vars(Await)
    /\ \A i \in 1..NumPairs : WF_vars(TaskStep(i))

LiveSpec == LiveInit /\ [][Next]_vars /\ Fairness

\* ------------------------------------------------------------------ strings
\* A String is the sequence of its characters; the letters are the ASCII ones.
UpperLetters == <<"A", "B", "C", "D", "E", "F", "G", "H", "I", "J", "K", "L", "M", "N", "O", "P", "Q", "R", "S", "T", "U", "V", "W", "X", "Y", "Z">>
LowerLetters == <<"a", "b", "c", "d", "e", "f", "g", "h", "i", "j", "k", "l", "m", "n", "o", "p", "q", "r", "s", "t", "u", "v", "w", "x", "y", "z">>

IsUpper(c) == \E k \in DOMAIN UpperLetters : UpperLetters[k] = c
IsLower(c) == \E k \in DOMAIN LowerLetters : LowerLetters[k] = c

\* char::to_ascii_lowercase / to_ascii_uppercase
char_to_lowercase(c) ==
    IF IsUpper(c)
    THEN LowerLetters[CHOOSE k \in DOMAIN UpperLetters : UpperLetters[k] = c]
    ELSE c

char_to_uppercase(c) ==
    IF IsLower(c)
    THEN UpperLetters[CHOOSE k \in DOMAIN LowerLetters : LowerLetters[k] = c]
    ELSE c

\* Option<T>
Some(v) == [some |-> TRUE, val |-> v]
Nothing == [some |-> FALSE]

\* &s[from..to]: positions are counted from 0, `to` is excluded
Slice(s, from, to) == SubSeq(s, from + 1, to)

\* str::find(char): the position of the first occurrence
find(s, c) ==
    IF \E k \in 1..Len(s) : s[k] = c
    THEN Some((CHOOSE k \in 1..Len(s) : s[k] = c /\ \A j \in 1..(k - 1) : s[j] # c) - 1)
    ELSE Nothing

\* str::contains(char)
contains(s, c) == \E k \in 1..Len(s) : s[k] = c

\* str::strip_prefix
strip_prefix(s, prefix) ==
    IF Len(s) >= Len(prefix) /\ SubSeq(s, 1, Len(prefix)) = prefix
    THEN Some(SubSeq(s, Len(prefix) + 1, Len(s)))
    ELSE Nothing

\* str::strip_suffix
strip_suffix(s, suffix) ==
    IF Len(s) >= Len(suffix) /\ SubSeq(s, Len(s) - Len(suffix) + 1, Len(s)) = suffix
    THEN Some(SubSeq(s, 1, Len(s) - Len(suffix)))
    ELSE Nothing

\* str::trim_end_matches(char): every trailing occurrence is removed
RECURSIVE trim_end_matches(_, _)
trim_end_matches(s, c) ==
    IF s # << >> /\ s[Len(s)] = c
    THEN trim_end_matches(SubSeq(s, 1, Len(s) - 1), c)
    ELSE s

\* ------------------------------------------- normalize_url (reconcile.rs)
HTTPS == <<"h", "t", "t", "p", "s", ":", "/", "/">>
HTTP == <<"h", "t", "t", "p", ":", "/", "/">>
SSH == <<"s", "s", "h", ":", "/", "/">>
GIT == <<"g", "i", "t", ":", "/", "/">>
DotGit == <<".", "g", "i", "t">>

\* reconcile.rs:107: &["https://", "http://", "ssh://", "git://"]
Prefixes == <<HTTPS, HTTP, SSH, GIT>>

\* Mutant of to_lowercase: the string is taken as it is.
to_lowercase_keeps_case(s) == s

\* reconcile.rs:104: url.to_lowercase()
to_lowercase(s) == [k \in 1..Len(s) |-> char_to_lowercase(s[k])]

\* reconcile.rs:107-112: the loop over the prefixes from the k-th on; the first
\* prefix found is stripped and the loop ends (break)
RECURSIVE strip_protocol_from(_, _)
strip_protocol_from(s, k) ==
    IF k > Len(Prefixes) THEN s
    ELSE LET rest == strip_prefix(s, Prefixes[k])
         IN  IF rest.some THEN rest.val ELSE strip_protocol_from(s, k + 1)

strip_protocol(s) == strip_protocol_from(s, 1)

\* Mutant of strip_user: `user@` is left in place.
strip_user_never(s) == s

\* reconcile.rs:115-121: strip `user@` when the @ comes before the first /
strip_user(s) ==
    LET at_pos == find(s, "@")
    IN  IF at_pos.some
        THEN LET slash_pos == IF find(s, "/").some THEN find(s, "/").val ELSE Len(s)
             IN  IF at_pos.val < slash_pos
                 THEN Slice(s, at_pos.val + 1, Len(s))
                 ELSE s
        ELSE s

\* Mutant of ssh_to_path: the first ':' becomes '/' whatever comes before it.
ssh_to_path_always(s) ==
    LET colon_pos == find(s, ":")
    IN  IF colon_pos.some
        THEN Slice(s, 0, colon_pos.val) \o <<"/">> \o Slice(s, colon_pos.val + 1, Len(s))
        ELSE s

\* reconcile.rs:124-128: host:path becomes host/path
ssh_to_path(s) ==
    LET colon_pos == find(s, ":")
    IN  IF colon_pos.some /\ ~contains(Slice(s, 0, colon_pos.val), "/")
        THEN Slice(s, 0, colon_pos.val) \o <<"/">> \o Slice(s, colon_pos.val + 1, Len(s))
        ELSE s

\* reconcile.rs:131-133: strip one trailing ".git"
strip_dot_git(s) ==
    LET stripped == strip_suffix(s, DotGit)
    IN  IF stripped.some THEN stripped.val ELSE s

\* reconcile.rs:103-139
normalize_url(u) ==
    trim_end_matches(
        strip_dot_git(ssh_to_path(strip_user(strip_protocol(to_lowercase(u))))),
        "/")

\* --------------------------------------------- the URLs normalize_url is given
\* Longest URL among those made of every sequence of the characters of
\* UrlAlphabet.
MaxLen == 3
\* Largest number of letters in which `cased` differs from `url`.
MaxFlips == 2

UrlAlphabet == {"a", "B", "@", ":", "/"}

RECURSIVE StringsUpTo(_)
StringsUpTo(n) ==
    IF n = 0 THEN {<< >>}
    ELSE LET shorter == StringsUpTo(n - 1)
         IN  shorter \cup {Append(t, c) : t \in shorter, c \in UrlAlphabet}

\* The parts git URLs are made of.
SchemeParts == {<< >>, HTTPS, HTTP, SSH, GIT, <<"H", "T", "T", "P", "S", ":", "/", "/">>}
GitAt == <<"g", "i", "t", "@">>
UserParts == {<< >>, GitAt}
\* Hosts and user/repo paths made of lower-case letters, digits and hyphens
\* (dots between the labels of a host).
PlainHosts == {<<"h">>, <<"g", "1", ".", "i", "o">>}
Separators == {<<":">>, <<"/">>}
PlainPaths == {<<"u", "/", "r">>, <<"m", "e", "/", "x", "-", "1">>}
SuffixParts == {<< >>, DotGit, <<"/">>, DotGit \o <<"/">>}

UrlsOfParts ==
    { sch \o us \o h \o sep \o pa \o suf :
        sch \in SchemeParts, us \in UserParts, h \in PlainHosts,
        sep \in Separators, pa \in PlainPaths, suf \in SuffixParts }

NormalizeInputs == UrlsOfParts \cup StringsUpTo(MaxLen)

\* While normalize_url is exercised, fork synchronisation does not run.
SyncIdle ==
    /\ pairs = 0
    /\ concurrency = 1
    /\ strategy = "FastForward"
    /\ dry_run = FALSE
    /\ repos = << >>
    /\ fs = [p \in AllPaths |-> [git |-> FALSE, upstream |-> FALSE]]
    /\ permits = 0
    /\ mainPc = "idle"
    /\ spawned = 0
    /\ awaited = 0
    /\ results = << >>
    /\ task = << >>

\* ------------------------------------------------------------ NormalizeSpec
NormalizeInit ==
    /\ url \in NormalizeInputs
    /\ cased = url
    /\ flips = 0
    /\ normPc = "input"
    /\ normalized = << >>
    /\ normalizedCased = << >>
    /\ renormalized = << >>
    /\ ReconcileIdle
    /\ SyncIdle
    /\ RestIdle

\* The other URL of a pair that differs in letter case only: one more letter
\* of `cased` changes case.
Recase ==
    /\ normPc = "input"
    /\ flips < MaxFlips
    /\ \E k \in 1..Len(cased) :
         /\ IsUpper(cased[k]) \/ IsLower(cased[k])
         /\ cased' = [cased EXCEPT ![k] = IF IsUpper(@) THEN char_to_lowercase(@)
                                                       ELSE char_to_uppercase(@)]
    /\ flips' = flips + 1
    /\ UNCHANGED <<url, normPc, normalized, normalizedCased, renormalized,
                   reconcileVars, scanVars, parseVars, codecVars,
                   syncVars>>

\* normalize_url(&url) and normalize_url(&cased), as urls_match calls it
Normalize ==
    /\ normPc = "input"
    /\ normalized' = normalize_url(url)
    /\ normalizedCased' = normalize_url(cased)
    /\ normPc' = "once"
    /\ UNCHANGED <<url, cased, flips, renormalized, reconcileVars, scanVars, parseVars, codecVars,
                   syncVars>>

\* normalize_url applied to its own result
Renormalize ==
    /\ normPc = "once"
    /\ renormalized' = normalize_url(normalized)
    /\ normPc' = "twice"
    /\ UNCHANGED <<url, cased, flips, normalized, normalizedCased,
                   reconcileVars, scanVars, parseVars, codecVars,
                   syncVars>>

NormalizeNext ==
    \/ Recase
    \/ Normalize
    \/ Renormalize

NormalizeSpec == NormalizeInit /\ [][NormalizeNext]_vars

\* -------------------------------------------------- reconcile (reconcile.rs)
\* RepoMatch (reconcile.rs:7-17). Each entry also records the input index of
\* the local (lidx) and of the remote (ridx) it was built from: the code pushes
\* clones of the input elements, which do not tell two equal elements apart.
Matched(l, r, lidx, ridx) ==
    [kind |-> "Matched", local |-> l, remote |-> r, lidx |-> lidx, ridx |-> ridx]
LocalOnly(l, lidx) == [kind |-> "LocalOnly", local |-> l, lidx |-> lidx]
RemoteOnly(r, ridx) == [kind |-> "RemoteOnly", remote |-> r, ridx |-> ridx]

\* The entries of kind `kind` in the Vec<RepoMatch> ms.
EntriesOf(ms, kind) == {k \in DOMAIN ms : ms[k].kind = kind}

\* ReconcileResult::matched_count / local_only_count / remote_only_count
matched_count(ms) == Cardinality(EntriesOf(ms, "Matched"))
local_only_count(ms) == Cardinality(EntriesOf(ms, "LocalOnly"))
remote_only_count(ms) == Cardinality(EntriesOf(ms, "RemoteOnly"))

\* Mutant of urls_match: only clone_url is compared.
urls_match_clone_only(local_repo, remote_repo) ==
    \E k \in DOMAIN local_repo.remotes :
        normalize_url(local_repo.remotes[k].url) = normalize_url(remote_repo.clone_url)

\* reconcile.rs:89-99: some remote URL of the local repo normalizes to the
\* normalized clone_url or ssh_url of the remote repo
urls_match(local_repo, remote_repo) ==
    \E k \in DOMAIN local_repo.remotes :
        LET local_normalized == normalize_url(local_repo.remotes[k].url)
        IN  \/ local_normalized = normalize_url(remote_repo.clone_url)
            \/ local_normalized = normalize_url(remote_repo.ssh_url)

\* Mutant of NextLocal: `found` is declared once, outside the loop, and keeps
\* its value from one local to the next.
NextLocal_keeps_found ==
    /\ rcPc = "outer"
    /\ li < Len(local)
    /\ li' = li + 1
    /\ idx' = 1
    /\ rcPc' = "inner"
    /\ UNCHANGED <<local, remote, matches, matched_remote_indices, found,
                   normalizeVars, scanVars, parseVars, codecVars,
                   syncVars>>

\* reconcile.rs:58-59: for local_repo in local { let mut found = false; ..
NextLocal ==
    /\ rcPc = "outer"
    /\ li < Len(local)
    /\ li' = li + 1
    /\ found' = FALSE
    /\ idx' = 1
    /\ rcPc' = "inner"
    /\ UNCHANGED <<local, remote, matches, matched_remote_indices,
                   normalizeVars, scanVars, parseVars, codecVars,
                   syncVars>>

\* Mutant of TryRemote: a remote an earlier local was matched to is passed
\* over (one-to-one matching).
TryRemote_skips_consumed ==
    /\ rcPc = "inner"
    /\ idx <= Len(remote)
    /\ IF idx \notin matched_remote_indices /\ urls_match(local[li], remote[idx])
       THEN /\ matches' = Append(matches, Matched(local[li], remote[idx], li, idx))
            /\ matched_remote_indices' = matched_remote_indices \cup {idx}
            /\ found' = TRUE
            /\ rcPc' = "after_inner"
            /\ idx' = idx
       ELSE /\ idx' = idx + 1
            /\ UNCHANGED <<matches, matched_remote_indices, found, rcPc>>
    /\ UNCHANGED <<local, remote, li, normalizeVars, scanVars, parseVars, codecVars,
                   syncVars>>

\* reconcile.rs:60-69: one iteration of `for (idx, remote_repo) in
\* remote.iter().enumerate()`: on a match push Matched, insert idx, break
TryRemote ==
    /\ rcPc = "inner"
    /\ idx <= Len(remote)
    /\ IF urls_match(local[li], remote[idx])
       THEN /\ matches' = Append(matches, Matched(local[li], remote[idx], li, idx))
            /\ matched_remote_indices' = matched_remote_indices \cup {idx}
            /\ found' = TRUE
            /\ rcPc' = "after_inner"
            /\ idx' = idx
       ELSE /\ idx' = idx + 1
            /\ UNCHANGED <<matches, matched_remote_indices, found, rcPc>>
    /\ UNCHANGED <<local, remote, li, normalizeVars, scanVars, parseVars, codecVars,
                   syncVars>>

\* reconcile.rs:60: the inner loop ends with no remote left
InnerDone ==
    /\ rcPc = "inner"
    /\ idx > Len(remote)
    /\ rcPc' = "after_inner"
    /\ UNCHANGED <<local, remote, matches, matched_remote_indices, li, idx, found,
                   normalizeVars, scanVars, parseVars, codecVars,
                   syncVars>>

\* Mutant of AfterInner: a local without any remote URL is left out of the
\* result.
AfterInner_skips_bare ==
    /\ rcPc = "after_inner"
    /\ matches' = IF ~found /\ local[li].remotes # << >>
                  THEN Append(matches, LocalOnly(local[li], li))
                  ELSE matches
    /\ rcPc' = "outer"
    /\ UNCHANGED <<local, remote, matched_remote_indices, li, idx, found,
                   normalizeVars, scanVars, parseVars, codecVars,
                   syncVars>>

\* Mutant of AfterInner: a LocalOnly entry is put at the head of matches.
AfterInner_local_only_first ==
    /\ rcPc = "after_inner"
    /\ matches' = IF ~found THEN <<LocalOnly(local[li], li)>> \o matches ELSE matches
    /\ rcPc' = "outer"
    /\ UNCHANGED <<local, remote, matched_remote_indices, li, idx, found,
                   normalizeVars, scanVars, parseVars, codecVars,
                   syncVars>>

\* reconcile.rs:71-73: if !found { matches.push(LocalOnly(..)) }
AfterInner ==
    /\ rcPc = "after_inner"
    /\ matches' = IF ~found THEN Append(matches, LocalOnly(local[li], li)) ELSE matches
    /\ rcPc' = "outer"
    /\ UNCHANGED <<local, remote, matched_remote_indices, li, idx, found,
                   normalizeVars, scanVars, parseVars, codecVars,
                   syncVars>>

\* reconcile.rs:74-76: the loop over the locals ends, the one over the remotes
\* begins
LocalsDone ==
    /\ rcPc = "outer"
    /\ li >= Len(local)
    /\ idx' = 1
    /\ rcPc' = "remote_only"
    /\ UNCHANGED <<local, remote, matches, matched_remote_indices, li, found,
                   normalizeVars, scanVars, parseVars, codecVars,
                   syncVars>>

\* Mutant of EmitRemoteOnly: the set of matched indices is not consulted.
EmitRemoteOnly_every_remote ==
    /\ rcPc = "remote_only"
    /\ idx <= Len(remote)
    /\ matches' = Append(matches, RemoteOnly(remote[idx], idx))
    /\ idx' = idx + 1
    /\ UNCHANGED <<local, remote, matched_remote_indices, rcPc, li, found,
                   normalizeVars, scanVars, parseVars, codecVars,
                   syncVars>>

\* reconcile.rs:76-80: if !matched_remote_indices.contains(&idx) { push RemoteOnly }
EmitRemoteOnly ==
    /\ rcPc = "remote_only"
    /\ idx <= Len(remote)
    /\ matches' = IF idx \notin matched_remote_indices
                  THEN Append(matches, RemoteOnly(remote[idx], idx))
                  ELSE matches
    /\ idx' = idx + 1
    /\ UNCHANGED <<local, remote, matched_remote_indices, rcPc, li, found,
                   normalizeVars, scanVars, parseVars, codecVars,
                   syncVars>>

\* reconcile.rs:82-85: ReconcileResult { host_label, matches }
ReconcileReturn ==
    /\ rcPc = "remote_only"
    /\ idx > Len(remote)
    /\ rcPc' = "returned"
    /\ UNCHANGED <<local, remote, matches, matched_remote_indices, li, idx, found,
                   normalizeVars, scanVars, parseVars, codecVars,
                   syncVars>>

\* ------------------------------------------------ the inputs of reconcile
\* Most local repositories, most remote repositories, most remotes in the git
\* config of one local repository.
MaxLocals == 2
MaxRemotes == 2
MaxUrls == 2

\* Sequences over S of length 0..n
SeqUpTo(S, n) == UNION {[1..k -> S] : k \in 0..n}

\* ScannedRemote values: repository a at host h, repository b at host h (whose
\* ssh host is s), repository c at host x which no remote describes.
ScannedRemotes ==
    { [name |-> "origin", url |-> <<"g", "i", "t", "@", "h", ":", "a">>],
      [name |-> "origin", url |-> <<"h", "t", "t", "p", "s", ":", "/", "/", "h", "/", "b", ".", "g", "i", "t">>],
      [name |-> "upstream", url |-> <<"s", "s", "h", ":", "/", "/", "g", "i", "t", "@", "s", "/", "b">>],
      [name |-> "origin", url |-> <<"h", "t", "t", "p", "s", ":", "/", "/", "x", "/", "c">>] }

\* RemoteRepo values (the two fields reconcile reads).
RemoteRepos ==
    { [clone_url |-> c, ssh_url |-> h] :
        c \in {<<"h", "t", "t", "p", "s", ":", "/", "/", "h", "/", "a", ".", "g", "i", "t">>, <<"H", "T", "T", "P", "S", ":", "/", "/", "h", "/", "b">>},
        h \in {<<"g", "i", "t", "@", "h", ":", "a", ".", "g", "i", "t">>, <<"g", "i", "t", "@", "s", ":", "b">>} }

\* ------------------------------------------------------------ ReconcileSpec
\* reconcile.rs:50-56: the call; scan_directory gives every repository its own
\* path.
ReconcileInit ==
    /\ \E rs \in SeqUpTo(SeqUpTo(ScannedRemotes, MaxUrls), MaxLocals) :
         local = [k \in DOMAIN rs |-> [path |-> k, remotes |-> rs[k]]]
    /\ remote \in SeqUpTo(RemoteRepos, MaxRemotes)
    /\ matches = << >>
    /\ matched_remote_indices = {}
    /\ rcPc = "outer"
    /\ li = 0
    /\ idx = 0
    /\ found = FALSE
    /\ NormalizeIdle
    /\ SyncIdle
    /\ RestIdle

ReconcileNext ==
    \/ NextLocal
    \/ TryRemote
    \/ InnerDone
    \/ AfterInner
    \/ LocalsDone
    \/ EmitRemoteOnly
    \/ ReconcileReturn

ReconcileSpec == ReconcileInit /\ [][ReconcileNext]_vars

\* ----------------------------------------- parse_git_config (scanner.rs)
\* char::is_whitespace for the characters of a config file
IsWhitespace(c) == c \in {" ", "\t"}

\* str::trim_start / str::trim
RECURSIVE trim_start(_)
trim_start(s) == IF s # << >> /\ IsWhitespace(Head(s)) THEN trim_start(Tail(s)) ELSE s

RECURSIVE trim_end(_)
trim_end(s) ==
    IF s # << >> /\ IsWhitespace(s[Len(s)]) THEN trim_end(SubSeq(s, 1, Len(s) - 1)) ELSE s

trim(s) == trim_end(trim_start(s))

\* str::starts_with / str::ends_with
starts_with(s, prefix) == strip_prefix(s, prefix).some
ends_with(s, suffix) == strip_suffix(s, suffix).some

\* scanner.rs:77-87: "[remote \"", "\"]", "url = "
RemoteOpen == <<"[", "r", "e", "m", "o", "t", "e", " ", "\"">>
RemoteClose == <<"\"", "]">>
UrlKey == <<"u", "r", "l", " ", "=", " ">>

\* scanner.rs:78-82: strip_prefix(..).and_then(|s| s.strip_suffix(..)).unwrap_or("")
header_name(trimmed) ==
    LET a == strip_prefix(trimmed, RemoteOpen)
        b == IF a.some THEN strip_suffix(a.val, RemoteClose) ELSE Nothing
    IN  IF b.some THEN b.val ELSE << >>

\* scanner.rs:75-94: one iteration of `for line in content.lines()`, on the
\* pair st = [current_remote, remotes]
parse_line(st, line) ==
    LET trimmed == trim(line)
    IN  IF starts_with(trimmed, RemoteOpen) /\ ends_with(trimmed, RemoteClose)
        THEN [st EXCEPT !.current_remote = Some(header_name(trimmed))]
        ELSE IF starts_with(trimmed, <<"[">>)
        THEN [st EXCEPT !.current_remote = Nothing]
        ELSE IF st.current_remote.some /\ strip_prefix(trimmed, UrlKey).some
        THEN [st EXCEPT !.remotes =
                 Append(@, [name |-> st.current_remote.val,
                            url  |-> trim(strip_prefix(trimmed, UrlKey).val)])]
        ELSE st

\* scanner.rs:72-96: the loop over all the lines
RECURSIVE parse_lines(_, _)
parse_lines(st, lines) ==
    IF lines = << >> THEN st.remotes
    ELSE parse_lines(parse_line(st, Head(lines)), Tail(lines))

\* scanner.rs:66-97: config is the file: whether read_to_string succeeds, and
\* its lines
parse_git_config(config) ==
    IF config.readable
    THEN parse_lines([current_remote |-> Nothing, remotes |-> << >>], config.lines)
    ELSE << >>

\* The lines a config file is made of.
LineCore == <<"[", "c", "o", "r", "e", "]">>
LineRemoteO == <<"[", "r", "e", "m", "o", "t", "e", " ", "\"", "o", "\"", "]">>
LineRemoteUp == <<"[", "r", "e", "m", "o", "t", "e", " ", "\"", "u", "p", "\"", "]">>
LineUrlX == <<"\t", "u", "r", "l", " ", "=", " ", "x">>
LineUrlYZ == <<"u", "r", "l", " ", "=", " ", "y", "/", "z", " ", " ">>
LineFetch == <<"\t", "f", "e", "t", "c", "h", " ", "=", " ", "f">>
LineRemoteTorn == <<"[", "r", "e", "m", "o", "t", "e", " ", "\"", "]">>

ConfigLines ==
    {LineCore, LineRemoteO, LineRemoteUp, LineUrlX, LineUrlYZ, LineFetch, LineRemoteTorn}

\* Most lines of a config file.
MaxLines == 4

\* ---------------------------------------------------------------- ParseSpec
\* parse_git_config(&config_path) on a file that exists
ParseInit ==
    /\ content \in SeqUpTo(ConfigLines, MaxLines)
    /\ line_no = 0
    /\ current_remote = Nothing
    /\ remotes = << >>
    /\ parsePc = "read"
    /\ NormalizeIdle
    /\ ReconcileIdle
    /\ ScanIdle
    /\ CodecIdle
    /\ SyncIdle

\* scanner.rs:67-73: read_to_string; Err(_) => return Vec::new()
ReadConfig ==
    /\ parsePc = "read"
    /\ \E readable \in BOOLEAN : parsePc' = IF readable THEN "lines" ELSE "returned"
    /\ UNCHANGED <<content, line_no, current_remote, remotes,
                   normalizeVars, reconcileVars, scanVars, codecVars, syncVars>>

\* scanner.rs:75-94: the next line of the file
ParseLine ==
    /\ parsePc = "lines"
    /\ line_no < Len(content)
    /\ LET st == parse_line([current_remote |-> current_remote, remotes |-> remotes],
                            content[line_no + 1])
       IN  /\ current_remote' = st.current_remote
           /\ remotes' = st.remotes
    /\ line_no' = line_no + 1
    /\ UNCHANGED <<content, parsePc,
                   normalizeVars, reconcileVars, scanVars, codecVars, syncVars>>

\* scanner.rs:96: remotes
ParseReturn ==
    /\ parsePc = "lines"
    /\ line_no = Len(content)
    /\ parsePc' = "returned"
    /\ UNCHANGED <<content, line_no, current_remote, remotes,
                   normalizeVars, reconcileVars, scanVars, codecVars, syncVars>>

ParseNext ==
    \/ ReadConfig
    \/ ParseLine
    \/ ParseReturn

ParseSpec == ParseInit /\ [][ParseNext]_vars

\* ------------------------------------------- scan_directory (scanner.rs)
\* scanner.rs:19-27
SKIP_DIRS == {"node_modules", "target", "vendor", ".git", "__pycache__", ".venv", "venv"}

\* The entries under the root: 1 is the root, 2 and 4 are in the root, 3 is in
\* 2. ParentOf gives the directory an entry is in, DepthOf its depth as
\* WalkDir counts it.
Root == 1
Entries == {1, 2, 3, 4}
ParentOf(n) == CASE n = 1 -> 0 [] n = 2 -> 1 [] n = 3 -> 2 [] n = 4 -> 1
DepthOf(n) == CASE n = 1 -> 0 [] n = 2 -> 1 [] n = 3 -> 2 [] n = 4 -> 1
ChildrenOf(n) == {c \in Entries : ParentOf(c) = n}

\* Largest max_depth handed to scan_directory.
MaxDepthArg == 2

\* The .git/config of a directory: missing, there but not readable, or read
\* as lines, without or with a url under a remote section.
NoConfig == [exists |-> FALSE, readable |-> FALSE, lines |-> << >>]
UnreadableConfig == [exists |-> TRUE, readable |-> FALSE, lines |-> << >>]
ConfigWithoutUrl == [exists |-> TRUE, readable |-> TRUE, lines |-> <<LineCore, LineFetch>>]
ConfigWithUrl == [exists |-> TRUE, readable |-> TRUE, lines |-> <<LineRemoteO, LineUrlX>>]

\* What an entry can be: a plain directory, a directory with a .git directory
\* and one of the four configs, or a symbolic link to a repository.
EntryKinds ==
    { [is_dir |-> TRUE,  git_dir |-> FALSE, config |-> NoConfig],
      [is_dir |-> TRUE,  git_dir |-> TRUE,  config |-> NoConfig],
      [is_dir |-> TRUE,  git_dir |-> TRUE,  config |-> UnreadableConfig],
      [is_dir |-> TRUE,  git_dir |-> TRUE,  config |-> ConfigWithoutUrl],
      [is_dir |-> TRUE,  git_dir |-> TRUE,  config |-> ConfigWithUrl],
      [is_dir |-> FALSE, git_dir |-> TRUE,  config |-> ConfigWithUrl] }

\* The names of the entries: one that is not in SKIP_DIRS, one that is.
EntryNames == {"myrepo", "target"}

DirEntry(name, kind) ==
    [file_name |-> name, is_dir |-> kind.is_dir, git_dir |-> kind.git_dir,
     config |-> kind.config]

\* Mutant of filter_entry: no directory is skipped.
filter_entry_keeps_all(entry) == TRUE

\* scanner.rs:37-43: the predicate of filter_entry
filter_entry(entry) ==
    IF ~entry.is_dir THEN TRUE ELSE entry.file_name \notin SKIP_DIRS

\* scanner.rs:46-59: the body of the loop for the yielded entry n, on the
\* Vec<ScannedRepo> rs
visit(rs, n, entry) ==
    IF ~entry.is_dir THEN rs
    ELSE IF entry.git_dir /\ entry.config.exists
    THEN Append(rs, [path |-> n, remotes |-> parse_git_config(entry.config)])
    ELSE rs

\* The orders in which read_dir can list the entries of S.
OrdersOf(S) ==
    {o \in [1..Cardinality(S) -> S] : \A c \in S : \E k \in DOMAIN o : o[k] = c}

\* scanner.rs:33-43, 45: the walker skips an entry the predicate rejects and,
\* when it is a directory, all that is in it (walkdir: skip_current_dir)
SkipEntry ==
    /\ scanPc = "walk"
    /\ walk # << >>
    /\ ~filter_entry(tree[Head(walk)])
    /\ walk' = Tail(walk)
    /\ UNCHANGED <<tree, max_depth, scan_repos, scanPc,
                   normalizeVars, reconcileVars, parseVars, codecVars, syncVars>>

\* scanner.rs:45-60: the walker yields the entry, the loop body runs; the
\* entries of a directory above max_depth come next, in the order read_dir
\* lists them (WalkDir: depth first, links not followed)
VisitEntry ==
    /\ scanPc = "walk"
    /\ walk # << >>
    /\ filter_entry(tree[Head(walk)])
    /\ scan_repos' = visit(scan_repos, Head(walk), tree[Head(walk)])
    /\ \E o \in OrdersOf(IF tree[Head(walk)].is_dir /\ DepthOf(Head(walk)) < max_depth
                          THEN ChildrenOf(Head(walk)) ELSE {}) :
         walk' = o \o Tail(walk)
    /\ UNCHANGED <<tree, max_depth, scanPc,
                   normalizeVars, reconcileVars, parseVars, codecVars, syncVars>>

\* scanner.rs:62: repos
ScanReturn ==
    /\ scanPc = "walk"
    /\ walk = << >>
    /\ scanPc' = "returned"
    /\ UNCHANGED <<tree, max_depth, walk, scan_repos,
                   normalizeVars, reconcileVars, parseVars, codecVars, syncVars>>

\* ----------------------------------------------------------------- ScanSpec
\* scan_directory(root, max_depth): the root is a directory (lib.rs:21 tests
\* path.exists()), with any name.
ScanInit ==
    /\ \E names \in [Entries -> EntryNames], kinds \in [Entries -> EntryKinds] :
         /\ kinds[Root].is_dir
         /\ tree = [n \in Entries |-> DirEntry(names[n], kinds[n])]
    /\ max_depth \in 0..MaxDepthArg
    /\ walk = <<Root>>
    /\ scan_repos = << >>
    /\ scanPc = "walk"
    /\ NormalizeIdle
    /\ ReconcileIdle
    /\ ParseIdle
    /\ CodecIdle
    /\ SyncIdle

ScanNext ==
    \/ SkipEntry
    \/ VisitEntry
    \/ ScanReturn

ScanSpec == ScanInit /\ [][ScanNext]_vars

\* ------------------------------------- enum codecs (gitr-core/src/models)
\* host.rs:28-34: the variants of HostKind (MergeStrategy and SyncStatus are
\* above)
HostKind == {"GitHub", "GitLab", "Gitea", "Bitbucket", "AzureDevOps"}

\* sync_link.rs:68-77: Display for MergeStrategy
MergeStrategy_to_string(v) ==
    CASE v = "FastForward" -> <<"f", "f">>
      [] v = "Merge" -> <<"m", "e", "r", "g", "e">>
      [] v = "Rebase" -> <<"r", "e", "b", "a", "s", "e">>
      [] v = "ForcePush" -> <<"f", "o", "r", "c", "e", "_", "p", "u", "s", "h">>

\* sync_link.rs:79-91: FromStr for MergeStrategy
MergeStrategy_from_str(s) ==
    IF
          s = <<"f", "f">>
          \/ s = <<"f", "a", "s", "t", "_", "f", "o", "r", "w", "a", "r", "d">>
          \/ s = <<"f", "a", "s", "t", "-", "f", "o", "r", "w", "a", "r", "d">>
    THEN Ok("FastForward")
    ELSE IF s = <<"m", "e", "r", "g", "e">> THEN Ok("Merge")
    ELSE IF s = <<"r", "e", "b", "a", "s", "e">> THEN Ok("Rebase")
    ELSE IF
          s = <<"f", "o", "r", "c", "e", "_", "p", "u", "s", "h">>
          \/ s = <<"f", "o", "r", "c", "e", "-", "p", "u", "s", "h">>
    THEN Ok("ForcePush")
    ELSE Err("unknown")

\* host.rs:36-46: Display for HostKind
HostKind_to_string(v) ==
    CASE v = "GitHub" -> <<"g", "i", "t", "h", "u", "b">>
      [] v = "GitLab" -> <<"g", "i", "t", "l", "a", "b">>
      [] v = "Gitea" -> <<"g", "i", "t", "e", "a">>
      [] v = "Bitbucket" -> <<"b", "i", "t", "b", "u", "c", "k", "e", "t">>
      [] v = "AzureDevOps" -> <<"a", "z", "u", "r", "e", "_", "d", "e", "v", "o", "p", "s">>

\* host.rs:48-61: FromStr for HostKind, on s.to_lowercase()
HostKind_from_str(s) ==
    IF to_lowercase(s) = <<"g", "i", "t", "h", "u", "b">> THEN Ok("GitHub")
    ELSE IF to_lowercase(s) = <<"g", "i", "t", "l", "a", "b">> THEN Ok("GitLab")
    ELSE IF to_lowercase(s) = <<"g", "i", "t", "e", "a">> THEN Ok("Gitea")
    ELSE IF to_lowercase(s) = <<"b", "i", "t", "b", "u", "c", "k", "e", "t">> THEN Ok("Bitbucket")
    ELSE IF
          to_lowercase(s) = <<"a", "z", "u", "r", "e", "_", "d", "e", "v", "o", "p", "s">>
          \/ to_lowercase(s) = <<"a", "z", "u", "r", "e", "-", "d", "e", "v", "o", "p", "s">>
          \/ to_lowercase(s) = <<"a", "z", "u", "r", "e", "d", "e", "v", "o", "p", "s">>
    THEN Ok("AzureDevOps")
    ELSE Err("unknown")

\* Mutant of SyncStatus_to_string: PartialSuccess is written as "partial".
SyncStatus_to_string_short(v) ==
    CASE v = "Success" -> <<"s", "u", "c", "c", "e", "s", "s">>
      [] v = "PartialSuccess" -> <<"p", "a", "r", "t", "i", "a", "l">>
      [] v = "Failed" -> <<"f", "a", "i", "l", "e", "d">>
      [] v = "Skipped" -> <<"s", "k", "i", "p", "p", "e", "d">>

\* sync_state.rs:18-27: Display for SyncStatus
SyncStatus_to_string(v) ==
    CASE v = "Success" -> <<"s", "u", "c", "c", "e", "s", "s">>
      [] v = "PartialSuccess" -> <<"p", "a", "r", "t", "i", "a", "l", "_", "s", "u", "c", "c", "e", "s", "s">>
      [] v = "Failed" -> <<"f", "a", "i", "l", "e", "d">>
      [] v = "Skipped" -> <<"s", "k", "i", "p", "p", "e", "d">>

\* sync_state.rs:29-41: FromStr for SyncStatus
SyncStatus_from_str(s) ==
    IF s = <<"s", "u", "c", "c", "e", "s", "s">> THEN Ok("Success")
    ELSE IF s = <<"p", "a", "r", "t", "i", "a", "l", "_", "s", "u", "c", "c", "e", "s", "s">> THEN Ok("PartialSuccess")
    ELSE IF s = <<"f", "a", "i", "l", "e", "d">> THEN Ok("Failed")
    ELSE IF s = <<"s", "k", "i", "p", "p", "e", "d">> THEN Ok("Skipped")
    ELSE Err("unknown")

\* ---------------------------------------------------------------- CodecSpec
\* A host, a sync link and a sync record on their way through persistence:
\* value holds the three enum values, text the three TEXT columns, read_back
\* what the rows are read as, codecPc where each column is.
CodecInit ==
    /\ value \in [kind : HostKind, merge_strategy : MergeStrategy, status : SyncStatus]
    /\ text = [kind |-> << >>, merge_strategy |-> << >>, status |-> << >>]
    /\ read_back = [kind |-> "unread", merge_strategy |-> "unread", status |-> "unread"]
    /\ codecPc = [kind |-> "value", merge_strategy |-> "value", status |-> "value"]
    /\ NormalizeIdle
    /\ ReconcileIdle
    /\ ScanIdle
    /\ ParseIdle
    /\ SyncIdle

\* ops.rs:38: host.kind.to_string() bound to the kind column
WriteHost ==
    /\ codecPc.kind = "value"
    /\ text' = [text EXCEPT !.kind = HostKind_to_string(value.kind)]
    /\ codecPc' = [codecPc EXCEPT !.kind = "written"]
    /\ UNCHANGED <<value, read_back,
                   normalizeVars, reconcileVars, scanVars, parseVars, syncVars>>

\* ops.rs:99: kind_str.parse().unwrap_or(HostKind::GitHub)
ReadHost ==
    /\ codecPc.kind = "written"
    /\ read_back' = [read_back EXCEPT !.kind = unwrap_or(HostKind_from_str(text.kind), "GitHub")]
    /\ codecPc' = [codecPc EXCEPT !.kind = "read"]
    /\ UNCHANGED <<value, text,
                   normalizeVars, reconcileVars, scanVars, parseVars, syncVars>>

\* ops.rs:330: link.merge_strategy.to_string() bound to the merge_strategy column
WriteLink ==
    /\ codecPc.merge_strategy = "value"
    /\ text' = [text EXCEPT !.merge_strategy = MergeStrategy_to_string(value.merge_strategy)]
    /\ codecPc' = [codecPc EXCEPT !.merge_strategy = "written"]
    /\ UNCHANGED <<value, read_back,
                   normalizeVars, reconcileVars, scanVars, parseVars, syncVars>>

\* ops.rs:382: strat_str.parse().unwrap_or(MergeStrategy::FastForward)
ReadLink ==
    /\ codecPc.merge_strategy = "written"
    /\ read_back' = [read_back EXCEPT !.merge_strategy =
                        unwrap_or(MergeStrategy_from_str(text.merge_strategy), "FastForward")]
    /\ codecPc' = [codecPc EXCEPT !.merge_strategy = "read"]
    /\ UNCHANGED <<value, text,
                   normalizeVars, reconcileVars, scanVars, parseVars, syncVars>>

\* ops.rs:404: record.status.to_string() bound to the status column
WriteRecord ==
    /\ codecPc.status = "value"
    /\ text' = [text EXCEPT !.status = SyncStatus_to_string(value.status)]
    /\ codecPc' = [codecPc EXCEPT !.status = "written"]
    /\ UNCHANGED <<value, read_back,
                   normalizeVars, reconcileVars, scanVars, parseVars, syncVars>>

\* ops.rs:468: status_str.parse().unwrap_or(SyncStatus::Failed)
ReadRecord ==
    /\ codecPc.status = "written"
    /\ read_back' = [read_back EXCEPT !.status = unwrap_or(SyncStatus_from_str(text.status), "Failed")]
    /\ codecPc' = [codecPc EXCEPT !.status = "read"]
    /\ UNCHANGED <<value, text,
                   normalizeVars, reconcileVars, scanVars, parseVars, syncVars>>

CodecNext ==
    \/ WriteHost
    \/ ReadHost
    \/ WriteLink
    \/ ReadLink
    \/ WriteRecord
    \/ ReadRecord

CodecSpec == CodecInit /\ [][CodecNext]_vars

\* ------------------------------------------------------------ vocabulary
\* sync_fork of unit i has returned its ForkSyncResult.
Returned(i) == task[i].pc \in {"returned", "done"}

\* The k-th git command of unit i was `op`.
CallIs(i, k, op) == task[i].calls[k][1] = op

\* Unit i has run the git command `op`.
Called(i, op) == \E k \in DOMAIN task[i].calls : CallIs(i, k, op)

\* The k-th git command of unit i made its git_ops function return Err.
\* ("already_exists" and "garbage" are outcomes the functions turn into Ok.)
CallFailed(i, k) == task[i].calls[k][2] \in {"fail", "nonzero", "spawn_failed"}

\* Commands that change the clone, its configuration or the origin remote.
MutatingOps ==
    { "clone", "remote_add", "fetch", "checkout", "merge_ff", "merge", "rebase",
      "rebase_abort", "reset", "push" }

\* Commands that move the local branch or publish it.
BranchOps == {"merge_ff", "merge", "rebase", "reset", "push"}

\* The units that are inside sync_fork at this moment.
Active == {i \in Units : Inside(i)}

\* No two pairs of the batch resolve to one directory.
PathsDistinct == \A i, j \in Units : i # j => PathOf(i) # PathOf(j)

\* ------------------------------------- sync_fork run alone, as a function
\* sync_fork_inner for a directory in state d0, replayed straight through
\* against the outcomes `orc` of the git commands (orc[k] = <<command, outcome,
\* n>>): what the code returns when nothing else touches the directory.
sync_fork_inner_alone(d0, strat, dry, orc) ==
    LET out(k) == orc[k][2]
        PushAt(k, behind) ==
            LET r == git_ok("git push origin failed", out(k))
            IN  IF r.ok THEN Ok(behind) ELSE r
        ResetAt(k, behind) ==
            LET r == git_ok("git reset --hard failed", out(k))
            IN  IF r.ok THEN PushAt(k + 1, behind) ELSE r
        StrategyAt(k, behind) ==
            LET r == CASE strat = "FastForward" -> merge_ff(out(k))
                       [] strat = "Merge"       -> merge(out(k))
                       [] strat = "Rebase"      -> rebase(out(k))
                       [] strat = "ForcePush"   -> git_ok("git checkout failed", out(k))
            IN  IF ~r.ok THEN r
                ELSE IF strat = "ForcePush" THEN ResetAt(k + 1, behind)
                ELSE PushAt(k + 1, behind)
        CheckoutAt(k, behind) ==
            LET r == git_ok("git checkout failed", out(k))
            IN  IF r.ok THEN StrategyAt(k + 1, behind) ELSE r
        BehindAt(k) ==
            LET a == AfterBehind(rev_list_count(<<orc[k][2], orc[k][3]>>), dry)
            IN  IF a[1] = "return" THEN a[2] ELSE CheckoutAt(k + 1, a[2].val)
        FetchAt(k) ==
            LET r == git_ok("git fetch upstream --prune failed", out(k))
            IN  IF r.ok THEN BehindAt(k + 1) ELSE r
        AddAt(k) ==
            LET r == remote_add(out(k))
            IN  IF r.ok THEN FetchAt(k + 1) ELSE r
        ListAt(k, listed) ==
            LET r  == git_ok("git remote failed", out(k))
                to == AfterRemoteList(listed, dry)
            IN  IF ~r.ok THEN r
                ELSE CASE to = "rev_list"   -> BehindAt(k + 1)
                       [] to = "fetch"      -> FetchAt(k + 1)
                       [] to = "remote_add" -> AddAt(k + 1)
        to0 == AfterCheckGit(d0.git, dry)
    IN  CASE to0 = "return_ok_0" -> Ok(0)
          [] to0 = "remote_list" -> ListAt(1, d0.upstream)
          [] to0 = "clone" ->
                LET r == git_ok("git clone failed", out(1))
                IN  IF r.ok THEN ListAt(2, FALSE) ELSE r

\* sync_fork for pair i alone: same directory state at the start, same
\* outcomes of its own git commands.
sync_fork_alone(i) ==
    [ repo_full_name |-> repos[i].full_name,
      record  |-> MatchResult(SyncRecord_new(i),
                              sync_fork_inner_alone(task[i].dir0, strategy, dry_run,
                                                    task[i].calls),
                              dry_run),
      dry_run |-> dry_run ]

\* ------------------------------------------------------------------ claims

\* C1: during sync_all_forks with concurrency limit N, at most N units are
\* inside sync_fork at the same time, in every reachable state.
C1_AtMostNActive == Cardinality(Active) <= concurrency

\* C2: when sync_all_forks returns, the list has one entry per input pair: its
\* length is the number of pairs and every pair's repo_full_name is the name of
\* exactly one result, whatever the completion order and however many failed.
C2_OneResultPerPair ==
    mainPc = "returned" =>
        /\ Len(results) = pairs
        /\ \A i \in Units :
             Cardinality({k \in DOMAIN results :
                            results[k].repo_full_name = repos[i].full_name}) = 1

\* C2 witness: a batch has returned in which a later pair finished before an
\* earlier one, one unit ended Failed and another did not.
C2_Witness ==
    /\ mainPc = "returned"
    /\ \E i, j \in Units : i < j /\ task[i].rank > task[j].rank
    /\ \E k \in DOMAIN results : results[k].record.status = "Failed"
    /\ \E k \in DOMAIN results : results[k].record.status # "Failed"

\* C3: when the pairs resolve to distinct directories, the result of every
\* unit is the result sync_fork returns for that pair alone, and the returned
\* batch holds it, whether or not other units failed.
C3_FailureIsolation ==
    PathsDistinct =>
        \A i \in Units :
            /\ Returned(i) => task[i].ret = sync_fork_alone(i)
            /\ mainPc = "returned" =>
                 /\ Returned(i)
                 /\ \E k \in DOMAIN results : results[k] = sync_fork_alone(i)

\* C3 witness: a returned batch over distinct directories in which one unit
\* failed and another transferred commits after the failure was collected.
C3_Witness ==
    /\ PathsDistinct
    /\ mainPc = "returned"
    /\ \E i, j \in Units :
         /\ i < j
         /\ task[i].ret.record.status = "Failed"
         /\ task[j].ret.record.status = "Success"
         /\ task[j].ret.record.commits_transferred > 0

\* A raised error that the code drops on purpose: the failing rev-list of a dry
\* run (unwrap_or(0)) and the result of `git rebase --abort` (let _ = ..).
Dropped(e) ==
    \/ dry_run /\ e = GitError("git rev-list --count failed")
    \/ e = GitError("failed to run git rebase --abort")

\* C4 (as claimed): sync_fork always returns a ForkSyncResult, and every error
\* raised by a git step of the run makes the record Failed with that error's
\* message in errors.
C4_EveryRaisedErrorReported ==
    \A i \in Units :
        Returned(i) =>
            \A k \in DOMAIN task[i].raised :
                /\ task[i].ret.record.status = "Failed"
                /\ \E m \in DOMAIN task[i].ret.record.errors :
                     task[i].ret.record.errors[m] = to_string(task[i].raised[k])

\* C4 (amended): sync_fork never stops short of returning a ForkSyncResult, and
\* every error raised by a git step, other than the two the code drops on
\* purpose, makes the record Failed with exactly that error's message.
C4_PropagatedErrorReported ==
    \A i \in Units :
        /\ task[i].pc \in InsidePcs \cup {"call"} => ENABLED SyncForkStep(i)
        /\ Returned(i) =>
             /\ task[i].ret.record.status \in SyncStatus
             /\ \A k \in DOMAIN task[i].raised :
                  \/ Dropped(task[i].raised[k])
                  \/ /\ task[i].ret.record.status = "Failed"
                     /\ task[i].ret.record.errors = <<to_string(task[i].raised[k])>>

\* C4 witness: a run has returned after a git step raised an error that is
\* reported.
C4_Witness ==
    \E i \in Units :
        /\ Returned(i)
        /\ \E k \in DOMAIN task[i].raised : ~Dropped(task[i].raised[k])
        /\ task[i].ret.record.status = "Failed"

\* C5: in a dry run only the read-only commands (remote listing, rev-list) are
\* ever invoked and the directory stays as it was.
C5_DryRunReadOnly ==
    dry_run =>
        \A i \in Units :
            /\ \A k \in DOMAIN task[i].calls : task[i].calls[k][1] \notin MutatingOps
            /\ PathsDistinct => fs[PathOf(i)] = task[i].dir0

\* C5 witness: a dry run over a clone without the upstream remote has returned
\* after listing the remotes and counting.
C5_Witness ==
    /\ dry_run
    /\ \E i \in Units :
         /\ Returned(i)
         /\ task[i].dir0 = [git |-> TRUE, upstream |-> FALSE]
         /\ Called(i, "remote")
         /\ Called(i, "rev_list")

\* The behind count of a dry run when it can be computed, else 0.
BestEffortBehind(i) ==
    IF \E k \in DOMAIN task[i].calls : CallIs(i, k, "rev_list") /\ task[i].calls[k][2] = "count"
    THEN task[i].calls[Len(task[i].calls)][3]
    ELSE 0

\* The remote listing of unit i failed.
RemoteListFailed(i) ==
    \E k \in DOMAIN task[i].calls : CallIs(i, k, "remote") /\ CallFailed(i, k)

\* C6 (as claimed): a dry run always ends Skipped, whatever the git commands
\* return, with commits_transferred the behind count when computable, else 0.
C6_DryRunAlwaysSkipped ==
    dry_run =>
        \A i \in Units :
            Returned(i) =>
                /\ task[i].ret.record.status = "Skipped"
                /\ task[i].ret.record.commits_transferred = BestEffortBehind(i)

\* C6 (amended): a dry run ends Skipped with commits_transferred the behind
\* count when computable, else 0, unless the remote listing fails: then it
\* ends Failed with commits_transferred 0.
C6_DryRunSkippedUnlessListFails ==
    dry_run =>
        \A i \in Units :
            Returned(i) =>
                IF RemoteListFailed(i)
                THEN /\ task[i].ret.record.status = "Failed"
                     /\ task[i].ret.record.commits_transferred = 0
                ELSE /\ task[i].ret.record.status = "Skipped"
                     /\ task[i].ret.record.commits_transferred = BestEffortBehind(i)

\* C6 witness: a dry run whose rev-list failed has returned Skipped.
C6_Witness ==
    /\ dry_run
    /\ \E i \in Units :
         /\ Returned(i)
         /\ \E k \in DOMAIN task[i].calls : CallIs(i, k, "rev_list") /\ CallFailed(i, k)
         /\ task[i].ret.record.status = "Skipped"

\* The rev-list of unit i gave a behind count of 0.
BehindIsZero(i) ==
    \E k \in DOMAIN task[i].calls :
        /\ CallIs(i, k, "rev_list")
        /\ rev_list_count(<<task[i].calls[k][2], task[i].calls[k][3]>>) = Ok(0)

\* C7: a live run whose behind count is 0 invokes no checkout, merge, rebase,
\* reset or push, and returns Success with commits_transferred 0 and
\* branches_synced 1.
C7_UpToDate ==
    ~dry_run =>
        \A i \in Units :
            BehindIsZero(i) =>
                /\ \A k \in DOMAIN task[i].calls :
                     task[i].calls[k][1] \notin BranchOps \cup {"checkout"}
                /\ Returned(i) =>
                     /\ task[i].ret.record.status = "Success"
                     /\ task[i].ret.record.commits_transferred = 0
                     /\ task[i].ret.record.branches_synced = 1

\* C7 witness: a live run that had to clone and add the remote found itself 0
\* behind and has returned.
C7_Witness ==
    /\ ~dry_run
    /\ \E i \in Units :
         Returned(i) /\ BehindIsZero(i) /\ Called(i, "clone") /\ Called(i, "fetch")

\* C8: with FastForward in a live run, once `git merge --ff-only` has exited
\* non-zero no merge, rebase, reset or push follows, and the run returns Failed
\* with exactly one message, tagged fast-forward failed.
C8_FastForwardFailure ==
    (strategy = "FastForward" /\ ~dry_run) =>
        \A i \in Units :
            \A k \in DOMAIN task[i].calls :
                (CallIs(i, k, "merge_ff") /\ task[i].calls[k][2] = "nonzero") =>
                    /\ \A m \in DOMAIN task[i].calls :
                         m > k => task[i].calls[m][1] \notin BranchOps
                    /\ Returned(i) =>
                         /\ task[i].ret.record.status = "Failed"
                         /\ Len(task[i].ret.record.errors) = 1
                         /\ task[i].ret.record.errors[1][1] = "fast-forward failed on branch "

\* C8 witness: a FastForward run 1 or more behind has returned after its
\* fast-forward merge exited non-zero.
C8_Witness ==
    /\ strategy = "FastForward"
    /\ \E i \in Units :
         /\ Returned(i)
         /\ task[i].behind > 0
         /\ \E k \in DOMAIN task[i].calls :
              CallIs(i, k, "merge_ff") /\ task[i].calls[k][2] = "nonzero"

\* C9: a run that ends Failed has branches_failed 1, branches_synced 0,
\* commits_transferred 0 and one message, and after the step that failed no
\* further step of the sequence ran (the abort inside the rebase step is part
\* of that step).
C9_FailedRecord ==
    \A i \in Units :
        /\ \A k \in DOMAIN task[i].calls :
             (CallFailed(i, k) /\ ~CallIs(i, k, "rebase_abort")) =>
                 \A m \in DOMAIN task[i].calls :
                     m > k => (m = k + 1 /\ CallIs(i, k, "rebase") /\ CallIs(i, m, "rebase_abort"))
        /\ (Returned(i) /\ task[i].ret.record.status = "Failed") =>
             /\ task[i].ret.record.branches_failed = 1
             /\ task[i].ret.record.branches_synced = 0
             /\ task[i].ret.record.commits_transferred = 0
             /\ Len(task[i].ret.record.errors) = 1
             /\ \E k \in DOMAIN task[i].calls : CallFailed(i, k)

\* C9 witness: a run has returned Failed because the push failed after a
\* strategy step that succeeded.
C9_Witness ==
    \E i \in Units :
        /\ Returned(i)
        /\ task[i].ret.record.status = "Failed"
        /\ \E k \in DOMAIN task[i].calls : CallIs(i, k, "push") /\ CallFailed(i, k)
        /\ task[i].behind > 0

\* The terminal outcome a run reached, from what sync_fork_inner returned.
TerminalOutcome(i) ==
    IF ~task[i].inner.ok THEN "Failed" ELSE IF dry_run THEN "Skipped" ELSE "Success"

\* C10: record.status is assigned once in a run: not while the git steps run
\* (the record stays as constructed), then once, by the step that returns, to
\* the terminal outcome reached; no git command runs after that and the
\* record does not change again.
C10_StatusAssignedOnce ==
    /\ [](\A i \in Units :
            /\ task[i].pc \in InsidePcs =>
                 task[i].writes = 0 /\ task[i].record = SyncRecord_new(i)
            /\ Returned(i) =>
                 /\ task[i].writes = 1
                 /\ task[i].record.status = TerminalOutcome(i)
                 /\ task[i].ret.record = task[i].record)
    /\ [][\A i \in Units :
            /\ task[i].writes' # task[i].writes =>
                 /\ task[i].pc = "match"
                 /\ task'[i].pc = "returned"
                 /\ task'[i].calls = task[i].calls
            /\ Returned(i) =>
                 /\ task'[i].record = task[i].record
                 /\ task'[i].calls = task[i].calls]_vars

\* C10 witness: one run has ended in each terminal outcome reachable under its
\* mode, here a live run that returned Success after transferring commits.
C10_Witness ==
    \E i \in Units :
        /\ Returned(i)
        /\ task[i].writes = 1
        /\ task[i].record.status = "Success"
        /\ task[i].record.commits_transferred > 0

\* The k-th git command of unit i was `op` and it succeeded.
CallOk(i, k, op) == CallIs(i, k, op) /\ task[i].calls[k][2] = "ok"

\* C11: a live run whose push succeeded returns Success with branches_synced 1
\* and commits_transferred the count of the one rev-list of the run, which ran
\* before the checkout and the strategy step; and a run returns Success with
\* commits_transferred above 0 only when its last command was a successful
\* push.
C11_SuccessAfterPush ==
    ~dry_run =>
        \A i \in Units :
            /\ \A k \in DOMAIN task[i].calls :
                 (Returned(i) /\ CallOk(i, k, "push")) =>
                     /\ task[i].ret.record.status = "Success"
                     /\ task[i].ret.record.branches_synced = 1
                     /\ \E r \in DOMAIN task[i].calls :
                          /\ CallIs(i, r, "rev_list")
                          /\ task[i].ret.record.commits_transferred = task[i].calls[r][3]
                          /\ \A m \in DOMAIN task[i].calls :
                               /\ CallIs(i, m, "rev_list") => m = r
                               /\ task[i].calls[m][1] \in BranchOps \cup {"checkout"} => m > r
            /\ (Returned(i) /\ task[i].ret.record.status = "Success"
                            /\ task[i].ret.record.commits_transferred > 0) =>
                 /\ task[i].calls # << >>
                 /\ CallOk(i, Len(task[i].calls), "push")

\* C11 witness: a live ForcePush run found itself behind, reset the branch,
\* pushed it and has returned.
C11_Witness ==
    /\ ~dry_run
    /\ strategy = "ForcePush"
    /\ \E i \in Units :
         /\ Returned(i)
         /\ task[i].behind > 0
         /\ \E k \in DOMAIN task[i].calls : CallOk(i, k, "reset")
         /\ \E k \in DOMAIN task[i].calls : CallOk(i, k, "push")

\* C12: with Rebase, once `git rebase` has exited non-zero the next command of
\* the run is `git rebase --abort`, already run before sync_fork returns; no
\* push is invoked, and the run returns Failed with one message, tagged merge
\* conflict.
C12_RebaseAborted ==
    strategy = "Rebase" =>
        \A i \in Units :
            \A k \in DOMAIN task[i].calls :
                (CallIs(i, k, "rebase") /\ task[i].calls[k][2] = "nonzero") =>
                    /\ task[i].pc \in {"match", "returned", "done"}
                    /\ Len(task[i].calls) = k + 1
                    /\ CallIs(i, k + 1, "rebase_abort")
                    /\ ~Called(i, "push")
                    /\ Returned(i) =>
                         /\ task[i].ret.record.status = "Failed"
                         /\ Len(task[i].ret.record.errors) = 1
                         /\ task[i].ret.record.errors[1][1] = "merge conflict on branch "

\* C12 witness: a Rebase run has returned after its rebase exited non-zero and
\* the abort that followed exited non-zero too.
C12_Witness ==
    /\ strategy = "Rebase"
    /\ \E i \in Units :
         /\ Returned(i)
         /\ \E k \in DOMAIN task[i].calls :
              CallIs(i, k, "rebase") /\ task[i].calls[k][2] = "nonzero"
         /\ \E k \in DOMAIN task[i].calls :
              CallIs(i, k, "rebase_abort") /\ task[i].calls[k][2] = "nonzero"

\* The entries of the result that classify the local of input index l.
EntriesForLocal(l) ==
    {k \in DOMAIN matches : matches[k].kind \in {"Matched", "LocalOnly"} /\ matches[k].lidx = l}

\* C13: reconcile never emits two entries for one local, and when it returns
\* every input local has exactly one entry, Matched or LocalOnly, holding that
\* local (LocalOnly when the local has no remotes), so that matched_count +
\* local_only_count is the number of input locals.
C13_OneEntryPerLocal ==
    /\ \A l \in DOMAIN local : Cardinality(EntriesForLocal(l)) <= 1
    /\ rcPc = "returned" =>
         /\ \A l \in DOMAIN local :
              /\ Cardinality(EntriesForLocal(l)) = 1
              /\ \A k \in EntriesForLocal(l) :
                   /\ matches[k].local = local[l]
                   /\ local[l].remotes = << >> => matches[k].kind = "LocalOnly"
         /\ matched_count(matches) + local_only_count(matches) = Len(local)

\* C13 witness: reconcile has returned for two locals, the first matched, the
\* second without any remote and so LocalOnly.
C13_Witness ==
    /\ rcPc = "returned"
    /\ Len(local) = 2
    /\ local[2].remotes = << >>
    /\ \E k \in DOMAIN matches : matches[k].kind = "Matched" /\ matches[k].lidx = 1
    /\ \E k \in DOMAIN matches : matches[k].kind = "LocalOnly" /\ matches[k].lidx = 2

\* The RemoteOnly entries, and the Matched entries, built from the remote of
\* input index r.
RemoteOnlyFor(r) ==
    {k \in DOMAIN matches : matches[k].kind = "RemoteOnly" /\ matches[k].ridx = r}
MatchedFor(r) ==
    {k \in DOMAIN matches : matches[k].kind = "Matched" /\ matches[k].ridx = r}

\* C14: a remote that some local was matched to is never emitted as
\* RemoteOnly; when reconcile returns, a remote no local was matched to is
\* emitted as RemoteOnly exactly once, and remote_only_count is the number of
\* input remotes minus the number of distinct remote indices in Matched
\* entries.
C14_RemoteOnlyIffUnmatched ==
    /\ \A r \in DOMAIN remote :
         /\ Cardinality(RemoteOnlyFor(r)) <= 1
         /\ MatchedFor(r) # {} => RemoteOnlyFor(r) = {}
         /\ \A k \in RemoteOnlyFor(r) : matches[k].remote = remote[r]
    /\ rcPc = "returned" =>
         /\ \A r \in DOMAIN remote :
              MatchedFor(r) = {} => Cardinality(RemoteOnlyFor(r)) = 1
         /\ remote_only_count(matches) =
              Len(remote) - Cardinality({matches[k].ridx : k \in EntriesOf(matches, "Matched")})

\* C14 witness: reconcile has returned for two remotes, the second matched by
\* a local, the first emitted as RemoteOnly.
C14_Witness ==
    /\ rcPc = "returned"
    /\ Len(remote) = 2
    /\ MatchedFor(2) # {}
    /\ RemoteOnlyFor(1) # {}

\* The normalized forms of the remote URLs of a local repository, and of the
\* two URLs of a remote repository.
LocalForms(l) == {normalize_url(local[l].remotes[k].url) : k \in DOMAIN local[l].remotes}
RemoteForms(r) == {normalize_url(remote[r].clone_url), normalize_url(remote[r].ssh_url)}

\* The remotes of the input list that local l can be matched to.
Candidates(l) == {r \in DOMAIN remote : LocalForms(l) \cap RemoteForms(r) # {}}

\* The least element of a non-empty set of indices.
Lowest(S) == CHOOSE r \in S : \A q \in S : r <= q

\* C15: when reconcile returns, the entry of each local is Matched with the
\* lowest-index remote of the input list one of whose normalized URLs
\* (clone_url, ssh_url) equals the normalized form of one of the local's
\* remote URLs, and is LocalOnly iff there is no such remote.
C15_LowestIndexMatch ==
    rcPc = "returned" =>
        \A l \in DOMAIN local :
            /\ EntriesForLocal(l) # {}
            /\ \A k \in EntriesForLocal(l) :
                IF Candidates(l) = {}
                THEN matches[k].kind = "LocalOnly"
                ELSE /\ matches[k].kind = "Matched"
                     /\ matches[k].ridx = Lowest(Candidates(l))
                     /\ matches[k].remote = remote[Lowest(Candidates(l))]

\* C15 witness: reconcile has returned after matching a local that two remotes
\* fit to the first of them, which fits by its ssh_url only.
C15_Witness ==
    /\ rcPc = "returned"
    /\ \E l \in DOMAIN local :
         /\ Candidates(l) = {1, 2}
         /\ normalize_url(remote[1].clone_url) \notin LocalForms(l)
         /\ \E k \in EntriesForLocal(l) : matches[k].kind = "Matched" /\ matches[k].ridx = 1

\* C16: matching is first-match and many-to-one. When the inner loop stands at
\* a remote that fits the current local, the local is matched to it whether or
\* not an earlier local consumed that remote; and once reconcile has returned,
\* two distinct locals whose first fitting remote is the same r are both
\* Matched with r, and r is not emitted as RemoteOnly.
C16_ManyToOne ==
    /\ [][(rcPc = "inner" /\ idx <= Len(remote) /\ idx \in Candidates(li)) =>
             /\ matches' = Append(matches, Matched(local[li], remote[idx], li, idx))
             /\ rcPc' = "after_inner"]_vars
    /\ [](rcPc = "returned" =>
            \A l1, l2 \in DOMAIN local :
                (/\ l1 # l2
                 /\ Candidates(l1) # {}
                 /\ Candidates(l2) # {}
                 /\ Lowest(Candidates(l1)) = Lowest(Candidates(l2))) =>
                    /\ \E k \in MatchedFor(Lowest(Candidates(l1))) : matches[k].lidx = l1
                    /\ \E k \in MatchedFor(Lowest(Candidates(l1))) : matches[k].lidx = l2
                    /\ RemoteOnlyFor(Lowest(Candidates(l1))) = {})

\* C16 witness: reconcile has returned with two locals matched to the second
\* of two remotes, and the first remote emitted as RemoteOnly.
C16_Witness ==
    /\ rcPc = "returned"
    /\ Len(matches) = 3
    /\ matches[1].kind = "Matched" /\ matches[1].lidx = 1 /\ matches[1].ridx = 2
    /\ matches[2].kind = "Matched" /\ matches[2].lidx = 2 /\ matches[2].ridx = 2
    /\ matches[3].kind = "RemoteOnly" /\ matches[3].ridx = 1

\* No remote URL of a local normalizes to the normalized clone_url or ssh_url
\* of a remote.
DisjointUrlSets ==
    \A l \in DOMAIN local, r \in DOMAIN remote : LocalForms(l) \cap RemoteForms(r) = {}

\* C17: for disjoint URL sets reconcile returns matched_count 0,
\* local_only_count the number of locals and remote_only_count the number of
\* remotes.
C17_DisjointCounts ==
    (rcPc = "returned" /\ DisjointUrlSets) =>
        /\ matched_count(matches) = 0
        /\ local_only_count(matches) = Len(local)
        /\ remote_only_count(matches) = Len(remote)

\* C17 witness: reconcile has returned for two locals, one with two remote
\* URLs, and two remotes, none of whose URLs normalize alike.
C17_Witness ==
    /\ rcPc = "returned"
    /\ DisjointUrlSets
    /\ Len(local) = 2
    /\ Len(remote) = 2
    /\ Len(local[1].remotes) = 2
    /\ Len(matches) = 4

\* C18: normalize_url is idempotent: applied to its own result it returns
\* that result, for every input.
C18_Idempotent == normPc = "twice" => renormalized = normalized

\* Two strings that differ in the case of letters only.
DifferOnlyInCase(x, y) ==
    /\ Len(x) = Len(y)
    /\ \A k \in 1..Len(x) : char_to_uppercase(x[k]) = char_to_uppercase(y[k])

\* C19: two URLs that differ only in letter case have the same normalized
\* form, and a normalized form holds no upper-case letter.
C19_CaseInsensitive ==
    (normPc \in {"once", "twice"} /\ DifferOnlyInCase(url, cased)) =>
        /\ normalized = normalizedCased
        /\ \A k \in 1..Len(normalized) : ~IsUpper(normalized[k])
        /\ \A k \in 1..Len(normalizedCased) : ~IsUpper(normalizedCased[k])

\* C19 witness: two URLs that differ in the case of two letters or more have
\* been normalized, and normalization removed a part of them.
C19_Witness ==
    /\ normPc = "once"
    /\ flips = MaxFlips
    /\ Cardinality({k \in 1..Len(url) : url[k] # cased[k]}) >= 2
    /\ Len(normalized) < Len(url)
    /\ normalized # << >>

\* The three forms of the URL of repository `pa` at host `h`.
ScpForm(h, pa) == GitAt \o h \o <<":">> \o pa \o DotGit
HttpsForm(h, pa) == HTTPS \o h \o <<"/">> \o pa \o DotGit
SshForm(h, pa) == SSH \o GitAt \o h \o <<"/">> \o pa

\* C20: for a host H and a path P = user/repo of plain name characters,
\* git@H:P.git, https://H/P.git and ssh://git@H/P each normalize to H/P.
C20_ThreeFormsAgree ==
    normPc \in {"once", "twice"} =>
        \A h \in PlainHosts, pa \in PlainPaths :
            url \in {ScpForm(h, pa), HttpsForm(h, pa), SshForm(h, pa)} =>
                normalized = h \o <<"/">> \o pa

\* C20 witness: the scp-style URL of a repository at a host with a dot in its
\* name has been normalized.
C20_Witness ==
    /\ normPc = "once"
    /\ \E h \in PlainHosts, pa \in PlainPaths :
         /\ contains(h, ".")
         /\ url = ScpForm(h, pa)
         /\ normalized = h \o <<"/">> \o pa

\* The entries of the result recorded for the directory n.
ScannedAt(n) == {k \in DOMAIN scan_repos : scan_repos[k].path = n}

\* The walker yields entry n: it is within max_depth, and neither an entry it
\* is in nor, when a directory, the entry itself has a name of SKIP_DIRS.
RECURSIVE Yielded(_)
Yielded(n) ==
    /\ DepthOf(n) <= max_depth
    /\ ~(tree[n].is_dir /\ tree[n].file_name \in SKIP_DIRS)
    /\ n # Root => (tree[ParentOf(n)].is_dir /\ Yielded(ParentOf(n)))

\* C21: when scan_directory returns, a directory is in the result only if its
\* .git/config exists and is readable (a missing or unreadable config gives
\* no entry), and a yielded directory whose config is readable but has no url
\* under a remote section is in the result with an empty remotes list.
C21_OnlyReadableConfigs ==
    scanPc = "returned" =>
        \A n \in Entries :
            /\ ScannedAt(n) # {} => (tree[n].config.exists /\ tree[n].config.readable)
            /\ (Yielded(n) /\ tree[n].is_dir /\ tree[n].git_dir
                   /\ tree[n].config = ConfigWithoutUrl) =>
                 \E k \in ScannedAt(n) : scan_repos[k].remotes = << >>

\* The line is a section header `[remote "<name>"]`: the opening, a name, the
\* closing, one after the other.
IsRemoteHeader(line) ==
    /\ Len(trim(line)) >= Len(RemoteOpen) + Len(RemoteClose)
    /\ SubSeq(trim(line), 1, Len(RemoteOpen)) = RemoteOpen
    /\ SubSeq(trim(line), Len(trim(line)) - Len(RemoteClose) + 1, Len(trim(line))) = RemoteClose

\* The <name> of a section header `[remote "<name>"]`.
HeaderNameOf(line) ==
    SubSeq(trim(line), Len(RemoteOpen) + 1, Len(trim(line)) - Len(RemoteClose))

\* The line starts with '[' once trimmed.
IsBracketLine(line) == trim(line) # << >> /\ Head(trim(line)) = "["

\* The line is `url = <value>` once trimmed.
IsUrlLine(line) ==
    /\ ~IsBracketLine(line)
    /\ Len(trim(line)) > Len(UrlKey)
    /\ SubSeq(trim(line), 1, Len(UrlKey)) = UrlKey

\* The trimmed <value> of a line `url = <value>`.
UrlValueOf(line) == trim(SubSeq(trim(line), Len(UrlKey) + 1, Len(trim(line))))

\* The bracketed lines among the first k lines.
BracketLinesUpTo(lines, k) == {j \in 1..k : IsBracketLine(lines[j])}

\* The current-remote context after the first k lines: the name of the last
\* bracketed line when that line is a remote header, none otherwise.
ContextAfter(lines, k) ==
    IF BracketLinesUpTo(lines, k) = {} THEN Nothing
    ELSE LET j == CHOOSE j \in BracketLinesUpTo(lines, k) :
                      \A h \in BracketLinesUpTo(lines, k) : h <= j
         IN  IF IsRemoteHeader(lines[j]) THEN Some(HeaderNameOf(lines[j])) ELSE Nothing

\* The pairs (current remote name, trimmed value) of the url lines among the
\* first k lines that are seen while a context is set, in file order.
RECURSIVE PairsUpTo(_, _)
PairsUpTo(lines, k) ==
    IF k = 0 THEN << >>
    ELSE IF IsUrlLine(lines[k]) /\ ContextAfter(lines, k - 1).some
    THEN Append(PairsUpTo(lines, k - 1),
                [name |-> ContextAfter(lines, k - 1).val, url |-> UrlValueOf(lines[k])])
    ELSE PairsUpTo(lines, k - 1)

\* C22: after each line of a readable config, the current-remote context of
\* parse_git_config is the name of the last bracketed line when that line is
\* a `[remote "<name>"]` header and is cleared otherwise, and the output is
\* exactly the (current remote name, trimmed value) pairs of the `url = <value>`
\* lines seen while a context is set, in file order.
C22_ContextAndPairs ==
    parsePc = "lines" =>
        /\ current_remote = ContextAfter(content, line_no)
        /\ remotes = PairsUpTo(content, line_no)

\* C22, on the configs in which every line that starts with `[remote "` and
\* ends with `"]` is a whole header: there the context and the pairs are as
\* the claim says.
C22_WholeHeaders ==
    (parsePc = "lines"
        /\ \A j \in 1..line_no :
              (starts_with(trim(content[j]), RemoteOpen)
                  /\ ends_with(trim(content[j]), RemoteClose)) => IsRemoteHeader(content[j]))
    => /\ current_remote = ContextAfter(content, line_no)
       /\ remotes = PairsUpTo(content, line_no)

\* Entry n is in a directory with a name of the denylist: the directory n
\* itself, whose .git would be in it, or a directory above it, up to the root.
RECURSIVE InDeniedDir(_)
InDeniedDir(n) ==
    \/ tree[n].is_dir /\ tree[n].file_name \in SKIP_DIRS
    \/ n # Root /\ InDeniedDir(ParentOf(n))

\* Every entry above n is a directory (a link is not followed).
RECURSIVE UnderDirs(_)
UnderDirs(n) == n = Root \/ (tree[ParentOf(n)].is_dir /\ UnderDirs(ParentOf(n)))

\* Entry n is a repository: a directory with a .git directory whose config
\* can be read.
IsRepository(n) ==
    tree[n].is_dir /\ tree[n].git_dir /\ tree[n].config.exists /\ tree[n].config.readable

\* C23: when scan_directory returns, no entry of the result is in a directory
\* with a name of the denylist, and every repository that is in no such
\* directory and within max_depth of the root is in the result.
C23_DenylistSkipped ==
    scanPc = "returned" =>
        \A n \in Entries :
            /\ ScannedAt(n) # {} => ~InDeniedDir(n)
            /\ (IsRepository(n) /\ UnderDirs(n) /\ ~InDeniedDir(n) /\ DepthOf(n) <= max_depth)
                   => ScannedAt(n) # {}

\* C23 witness: the scan has returned; the repository 3, two levels down in a
\* directory named target, is not in the result, and the repository 4, next
\* to that directory, is.
C23_Witness ==
    /\ scanPc = "returned"
    /\ max_depth = 2
    /\ tree[2].is_dir /\ tree[2].file_name = "target"
    /\ IsRepository(3) /\ tree[3].file_name = "myrepo"
    /\ IsRepository(4) /\ tree[4].file_name = "myrepo"
    /\ ScannedAt(3) = {}
    /\ ScannedAt(4) # {}

\* C24: for each of MergeStrategy, HostKind and SyncStatus, the text that
\* to_string wrote for a variant parses to that variant, and the row read back
\* from persistence holds the value that was written.
C24_RoundTrip ==
    /\ codecPc.kind # "value" => HostKind_from_str(text.kind) = Ok(value.kind)
    /\ codecPc.merge_strategy # "value" =>
           MergeStrategy_from_str(text.merge_strategy) = Ok(value.merge_strategy)
    /\ codecPc.status # "value" => SyncStatus_from_str(text.status) = Ok(value.status)
    /\ codecPc.kind = "read" => read_back.kind = value.kind
    /\ codecPc.merge_strategy = "read" => read_back.merge_strategy = value.merge_strategy
    /\ codecPc.status = "read" => read_back.status = value.status

\* C24 witness: three values that are not the defaults of the readers
\* (AzureDevOps, ForcePush, PartialSuccess) have been written and read back.
C24_Witness ==
    /\ codecPc = [kind |-> "read", merge_strategy |-> "read", status |-> "read"]
    /\ value = [kind |-> "AzureDevOps", merge_strategy |-> "ForcePush",
                status |-> "PartialSuccess"]
    /\ text.kind = HostKind_to_string("AzureDevOps")
    /\ read_back = value

\* The step of sync_fork_inner that the k-th git command of unit i belongs to:
\* 1 clone, 2 remote list, 3 remote add, 4 fetch, 5 rev-list count, 6 checkout,
\* 7 the strategy operation (merge --ff-only, merge, rebase with its abort, or
\* the checkout and reset of ForcePush), 8 push.
StepOf(i, k) ==
    LET op == task[i].calls[k][1]
    IN  CASE op = "clone"      -> 1
          [] op = "remote"     -> 2
          [] op = "remote_add" -> 3
          [] op = "fetch"      -> 4
          [] op = "rev_list"   -> 5
          [] op = "checkout"   ->
                 IF k > 1 /\ task[i].calls[k - 1][1] = "checkout" THEN 7 ELSE 6
          [] op \in {"merge_ff", "merge", "rebase", "rebase_abort", "reset"} -> 7
          [] op = "push"       -> 8

\* The steps a live run of unit i cannot leave out before it goes further:
\* clone when the directory had no .git, remote add when upstream was not
\* listed (it is listed only in a directory that had it when the run began).
DueSteps(i) ==
    {2, 4, 5, 6, 7}
        \cup (IF task[i].dir0.git THEN {} ELSE {1})
        \cup (IF task[i].dir0.git /\ task[i].dir0.upstream THEN {} ELSE {3})

\* C25: in a live run the git commands follow the order of the steps: a
\* command of a later step never comes before one of an earlier step and only
\* the strategy step has more than one command; clone runs only without .git
\* and remote add only when upstream is not listed; a command runs only when
\* every step due before it has run and every command of an earlier step
\* succeeded.
C25_FixedStepOrder ==
    ~dry_run =>
        \A i \in Units :
            /\ \A k, l \in DOMAIN task[i].calls :
                   k < l =>
                       /\ StepOf(i, k) < StepOf(i, l) \/ (StepOf(i, k) = 7 /\ StepOf(i, l) = 7)
                       /\ StepOf(i, k) < StepOf(i, l) => ~CallFailed(i, k)
            /\ \A l \in DOMAIN task[i].calls :
                   /\ StepOf(i, l) \in {1, 3} => StepOf(i, l) \in DueSteps(i)
                   /\ \A st \in DueSteps(i) :
                          st < StepOf(i, l) => \E k \in 1..(l - 1) : StepOf(i, k) = st

\* C25 witness: a live ForcePush run in an empty directory has returned after
\* all its steps: clone, remote, remote add, fetch, rev-list, checkout, the
\* checkout and reset of the strategy, push.
C25_Witness ==
    /\ ~dry_run
    /\ strategy = "ForcePush"
    /\ Returned(1)
    /\ Len(task[1].calls) = 9
    /\ CallOk(1, 1, "clone")
    /\ CallOk(1, 3, "remote_add")
    /\ CallOk(1, 8, "reset")
    /\ CallOk(1, 9, "push")

\* Unit i holds a permit of the semaphore.
Admitted(i) == task[i].permit = "permit"

\* C26: under fair scheduling every unit of the batch eventually acquires a
\* permit and runs sync_fork, sync_all_forks eventually returns, and once a
\* unit has finished its permit is back in the semaphore.
C26_AdmittedAndReturns ==
    /\ \A i \in 1..NumPairs : <>(Admitted(i) /\ Inside(i))
    /\ <>(mainPc = "returned")
    /\ [](\A i \in Units : task[i].pc = "done" => ~Admitted(i))

\* C26, without the permit: under fair scheduling every unit eventually runs
\* sync_fork and finishes, and sync_all_forks eventually returns with the
\* semaphore as it was built.
C26_RunsAndReturns ==
    /\ \A i \in 1..NumPairs : <>Inside(i)
    /\ \A i \in 1..NumPairs : <>(task[i].pc = "done")
    /\ <>(mainPc = "returned" /\ permits = concurrency)

\* The k-th git command of unit i is the last one of the run, and the run
\* ends Failed.
EndsFailedAt(i, k) ==
    /\ Len(task[i].calls) = k
    /\ task[i].pc \in {"match", "returned", "done"}
    /\ ~task[i].inner.ok
    /\ Returned(i) => task[i].ret.record.status = "Failed"

\* After its k-th git command the run of unit i goes on to `git fetch`.
GoesOnToFetch(i, k) ==
    IF Len(task[i].calls) = k THEN task[i].pc = "fetch" ELSE CallIs(i, k + 1, "fetch")

\* C27: in a live run, `git remote add` comes right after a remote listing
\* that succeeded and did not list upstream; when it succeeds or fails with
\* "already exists" the run goes on to fetch, any other failure of it ends the
\* run Failed, and so does a failure of the remote listing.
C27_EnsureUpstream ==
    ~dry_run =>
        \A i \in Units : \A k \in DOMAIN task[i].calls :
            /\ CallIs(i, k, "remote_add") =>
                   /\ k > 1 /\ CallOk(i, k - 1, "remote")
                   /\ ~(task[i].dir0.git /\ task[i].dir0.upstream)
                   /\ task[i].calls[k][2] \in {"ok", "already_exists"} => GoesOnToFetch(i, k)
                   /\ task[i].calls[k][2] \in {"nonzero", "spawn_failed"} => EndsFailedAt(i, k)
            /\ CallOk(i, k, "remote") =>
                   IF task[i].dir0.git /\ task[i].dir0.upstream
                   THEN GoesOnToFetch(i, k)
                   ELSE IF Len(task[i].calls) = k THEN task[i].pc = "remote_add"
                   ELSE CallIs(i, k + 1, "remote_add")
            /\ (CallIs(i, k, "remote") /\ CallFailed(i, k)) => EndsFailedAt(i, k)

\* C27 witness: in a live run `git remote add` failed with "already exists"
\* and the run has fetched.
C27_Witness ==
    /\ ~dry_run
    /\ \E k \in DOMAIN task[1].calls :
         /\ CallIs(1, k, "remote_add")
         /\ task[1].calls[k][2] = "already_exists"
         /\ k < Len(task[1].calls)
         /\ CallOk(1, k + 1, "fetch")

\* The k-th git command of unit i is a rev-list whose count is taken as 0:
\* it is the last command of the run (no checkout, merge or push follows),
\* sync_fork_inner returns Ok(0), and the result is Skipped in a dry run and
\* Success in a live run, with commits_transferred = 0.
CountedAsZero(i, k) ==
    /\ Len(task[i].calls) = k
    /\ task[i].behind = 0
    /\ task[i].inner = Ok(0)
    /\ task[i].pc \in {"match", "returned", "done"}
    /\ Returned(i) =>
           /\ task[i].ret.record.status = IF dry_run THEN "Skipped" ELSE "Success"
           /\ task[i].ret.record.commits_transferred = 0

\* C28 as stated: whenever rev-list fails or prints something that is no
\* number the count is taken as 0, in dry and in live runs; a live run then
\* ends as one that is 0 behind, not Failed.
C28_FailureCountsAsZero ==
    \A i \in Units : \A k \in DOMAIN task[i].calls :
        (CallIs(i, k, "rev_list") /\ task[i].calls[k][2] \in {"fail", "garbage"})
            => CountedAsZero(i, k)

\* C28 amended: output that is no number is taken as 0 in dry and in live
\* runs, and so is a failing rev-list in a dry run; a failing rev-list in a
\* live run ends the run Failed, with no checkout, merge or push.
C28_ZeroUnlessLiveFailure ==
    \A i \in Units : \A k \in DOMAIN task[i].calls :
        CallIs(i, k, "rev_list") =>
            /\ task[i].calls[k][2] = "garbage" => CountedAsZero(i, k)
            /\ (task[i].calls[k][2] = "fail" /\ dry_run) => CountedAsZero(i, k)
            /\ (task[i].calls[k][2] = "fail" /\ ~dry_run) => EndsFailedAt(i, k)

\* C28 witness: a live run whose rev-list failed has returned Failed, and
\* its record carries the error.
C28_Witness ==
    /\ ~dry_run
    /\ Returned(1)
    /\ task[1].calls # << >>
    /\ task[1].calls[Len(task[1].calls)][1] = "rev_list"
    /\ task[1].calls[Len(task[1].calls)][2] = "fail"
    /\ task[1].ret.record.status = "Failed"
    /\ task[1].ret.record.errors # << >>

\* C29: in a dry run whose resolved directory has no .git, sync_fork runs no
\* git command at any point, never stands before one, and returns Skipped
\* with commits_transferred = 0 and no error.
C29_DryRunWithoutGitStops ==
    \A i \in Units :
        (dry_run /\ ~task[i].dir0.git) =>
            /\ task[i].calls = << >>
            /\ task[i].pc \in {"call", "check_git", "match", "returned", "done"}
            /\ task[i].pc \in {"match", "returned", "done"} => task[i].inner = Ok(0)
            /\ Returned(i) =>
                   /\ task[i].ret.record.status = "Skipped"
                   /\ task[i].ret.record.commits_transferred = 0
                   /\ task[i].ret.record.errors = << >>

\* C29 witness: a dry run on a directory without .git has returned Skipped
\* without a git command, and the directory still has no .git.
C29_Witness ==
    /\ dry_run
    /\ ~task[1].dir0.git
    /\ Returned(1)
    /\ task[1].calls = << >>
    /\ task[1].ret.record.status = "Skipped"
    /\ ~fs[PathOf(1)].git

\* C30: a git command that failed is the last command of its run, but for a
\* rebase that exited non-zero, which is followed by `git rebase --abort` and
\* nothing more; `git rebase --abort` runs nowhere else; and what the
\* commands that succeeded applied stays: the clone is on disk and the
\* upstream remote is configured, whatever failed after them.
C30_NoCompensation ==
    \A i \in Units :
        /\ \A k \in DOMAIN task[i].calls :
               /\ (CallFailed(i, k) /\ k < Len(task[i].calls)) =>
                      /\ CallIs(i, k, "rebase")
                      /\ task[i].calls[k][2] = "nonzero"
                      /\ k + 1 = Len(task[i].calls)
                      /\ CallIs(i, k + 1, "rebase_abort")
               /\ CallIs(i, k, "rebase_abort") =>
                      /\ k > 1 /\ CallIs(i, k - 1, "rebase")
                      /\ task[i].calls[k - 1][2] = "nonzero"
               /\ CallFailed(i, k) => task[i].pc \in {"match", "returned", "done"}
               /\ CallOk(i, k, "clone") => fs[PathOf(i)].git
               /\ (CallIs(i, k, "remote_add") /\ ~CallFailed(i, k)) => fs[PathOf(i)].upstream
        /\ task[i].dir0.git => fs[PathOf(i)].git
        /\ task[i].dir0.upstream => fs[PathOf(i)].upstream

\* C30 witness: a live FastForward run cloned, added upstream and merged,
\* then its push failed; it has returned Failed, the push is its last
\* command, and the clone with its upstream remote is still there.
C30_Witness ==
    /\ ~dry_run
    /\ strategy = "FastForward"
    /\ Returned(1)
    /\ task[1].ret.record.status = "Failed"
    /\ Len(task[1].calls) = 8
    /\ CallOk(1, 1, "clone")
    /\ CallOk(1, 3, "remote_add")
    /\ CallOk(1, 7, "merge_ff")
    /\ CallIs(1, 8, "push") /\ CallFailed(1, 8)
    /\ fs[PathOf(1)] = [git |-> TRUE, upstream |-> TRUE]

\* The places of the character c in s, and whether p is a leading part of s.
PlacesOf(s, c) == {k \in 1..Len(s) : s[k] = c}
First(S) == CHOOSE k \in S : \A j \in S : k <= j
LeadingPart(p, s) == Len(p) <= Len(s) /\ \A k \in 1..Len(p) : s[k] = p[k]

\* Step 1 of the reference: lowercase.
RefLower(s) == [k \in 1..Len(s) |-> IF IsUpper(s[k]) THEN char_to_lowercase(s[k]) ELSE s[k]]

\* Step 2: strip at most one leading scheme, the first of https://, http://,
\* ssh://, git:// that matches.
RefScheme(s) ==
    LET hits == {k \in 1..4 : LeadingPart(<<HTTPS, HTTP, SSH, GIT>>[k], s)}
    IN  IF hits = {} THEN s
        ELSE SubSeq(s, Len(<<HTTPS, HTTP, SSH, GIT>>[First(hits)]) + 1, Len(s))

\* Step 3: strip through the first '@' only if it occurs before the first
\* '/' (or anywhere, if there is no '/').
RefUser(s) ==
    IF PlacesOf(s, "@") # {}
          /\ (PlacesOf(s, "/") = {} \/ First(PlacesOf(s, "@")) < First(PlacesOf(s, "/")))
    THEN SubSeq(s, First(PlacesOf(s, "@")) + 1, Len(s))
    ELSE s

\* Step 4: rewrite the first ':' to '/' only if the text before it contains
\* no '/'.
RefColon(s) ==
    IF PlacesOf(s, ":") # {}
          /\ \A k \in PlacesOf(s, "/") : k > First(PlacesOf(s, ":"))
    THEN [k \in 1..Len(s) |-> IF k = First(PlacesOf(s, ":")) THEN "/" ELSE s[k]]
    ELSE s

\* Step 5: strip one trailing ".git".
RefDotGit(s) ==
    IF Len(s) >= 4 /\ SubSeq(s, Len(s) - 3, Len(s)) = <<".", "g", "i", "t">>
    THEN SubSeq(s, 1, Len(s) - 4)
    ELSE s

\* Step 6: strip all trailing '/': what is left ends at the last character
\* that is not '/'.
RefSlashes(s) ==
    LET others == {k \in 1..Len(s) : s[k] # "/"}
    IN  IF others = {} THEN << >>
        ELSE SubSeq(s, 1, CHOOSE k \in others : \A j \in others : j <= k)

\* The six steps, once each, in order.
RefNormalize(u) == RefSlashes(RefDotGit(RefColon(RefUser(RefScheme(RefLower(u))))))

\* C31: what normalize_url returns is what the six-step reference gives, for
\* the URL, for its re-cased twin and for the normalized URL itself.
C31_SixStepReference ==
    /\ normPc \in {"once", "twice"} =>
           /\ normalized = RefNormalize(url)
           /\ normalizedCased = RefNormalize(cased)
    /\ normPc = "twice" => renormalized = RefNormalize(normalized)

\* C31 witness: a URL on which five of the steps act (upper-case scheme,
\* git@, scp colon, .git) has been normalized to host/path.
C31_Witness ==
    /\ normPc = "once"
    /\ url = <<"H", "T", "T", "P", "S", ":", "/", "/">> \o GitAt
               \o <<"g", "1", ".", "i", "o">> \o <<":">>
               \o <<"m", "e", "/", "x", "-", "1">> \o DotGit
    /\ normalized = <<"g", "1", ".", "i", "o", "/", "m", "e", "/", "x", "-", "1">>

\* The run of unit i failed: sync_fork_inner returned Err.
RunFailed(i) == ~task[i].inner.ok

\* C32: every record returned by sync_fork has branches_synced +
\* branches_failed = 1; it is Failed exactly when errors is not empty and
\* exactly when branches_failed = 1; Skipped exactly when the run was dry and
\* did not fail, Success exactly when it was live and did not fail; never
\* PartialSuccess; and commits_transferred > 0 only with Success or Skipped.
C32_RecordShape ==
    \A i \in Units :
        Returned(i) =>
            LET rec == task[i].ret.record
            IN  /\ rec.branches_synced \in {0, 1}
                /\ rec.branches_failed \in {0, 1}
                /\ rec.branches_synced + rec.branches_failed = 1
                /\ (rec.status = "Failed") <=> (rec.errors # << >>)
                /\ (rec.status = "Failed") <=> (rec.branches_failed = 1)
                /\ (rec.status = "Skipped") <=> (dry_run /\ ~RunFailed(i))
                /\ (rec.status = "Success") <=> (~dry_run /\ ~RunFailed(i))
                /\ rec.status # "PartialSuccess"
                /\ rec.commits_transferred > 0 => rec.status \in {"Success", "Skipped"}

\* C32 witness: a live run has returned a Success record that transferred
\* commits, with one branch synced, none failed and no error.
C32_Witness ==
    /\ Returned(1)
    /\ ~dry_run
    /\ task[1].ret.record.status = "Success"
    /\ task[1].ret.record.commits_transferred > 0
    /\ task[1].ret.record.branches_synced = 1
    /\ task[1].ret.record.branches_failed = 0
    /\ task[1].ret.record.errors = << >>

\* C33: at every moment the k-th collected result is the one sync_fork
\* returned for the k-th input pair, and the list sync_all_forks returns has
\* one result per pair in input order, whatever the order the units
\* finished in.
C33_ResultsInInputOrder ==
    /\ \A k \in DOMAIN results :
           /\ results[k].repo_full_name = repos[k].full_name
           /\ results[k] = task[k].ret
    /\ mainPc = "returned" => Len(results) = pairs

\* C33 witness: the batch has returned; the second unit finished before the
\* first, and the first result is still the first pair's.
C33_Witness ==
    /\ mainPc = "returned"
    /\ task[2].rank < task[1].rank
    /\ results[1].repo_full_name = repos[1].full_name
    /\ results[2].repo_full_name = repos[2].full_name

\* C34: in matches no RemoteOnly entry ever comes before a Matched or
\* LocalOnly entry; when reconcile returns, the l-th entry is the Matched or
\* LocalOnly entry of the l-th local, and the entries after the locals' are
\* the RemoteOnly ones, in the remotes' input order.
C34_LocalsThenRemoteOnly ==
    /\ \A j, k \in DOMAIN matches :
           (j < k /\ matches[j].kind = "RemoteOnly") => matches[k].kind = "RemoteOnly"
    /\ \A j, k \in DOMAIN matches :
           (j < k /\ matches[j].kind # "RemoteOnly" /\ matches[k].kind # "RemoteOnly")
               => matches[j].lidx < matches[k].lidx
    /\ \A j, k \in DOMAIN matches :
           (j < k /\ matches[j].kind = "RemoteOnly") => matches[j].ridx < matches[k].ridx
    /\ rcPc = "returned" =>
           /\ Len(matches) >= Len(local)
           /\ \A l \in DOMAIN local :
                  /\ matches[l].kind \in {"Matched", "LocalOnly"}
                  /\ matches[l].lidx = l
                  /\ matches[l].local = local[l]
           /\ \A k \in (Len(local) + 1)..Len(matches) :
                  /\ matches[k].kind = "RemoteOnly"
                  /\ matches[k].remote = remote[matches[k].ridx]

\* C34 witness: reconcile has returned three entries for two locals and two
\* remotes: the first local LocalOnly, the second Matched to the second
\* remote, then the first remote RemoteOnly.
C34_Witness ==
    /\ rcPc = "returned"
    /\ Len(local) = 2
    /\ Len(remote) = 2
    /\ Len(matches) = 3
    /\ matches[1].kind = "LocalOnly"
    /\ matches[2].kind = "Matched" /\ matches[2].ridx = 2
    /\ matches[3].kind = "RemoteOnly" /\ matches[3].ridx = 1

\* C34 second order: two RemoteOnly entries follow the locals' entries, the
\* first remote's before the second's.
C34_TwoRemoteOnly ==
    /\ rcPc = "returned"
    /\ Len(local) = 2
    /\ Len(matches) = 4
    /\ matches[3].kind = "RemoteOnly" /\ matches[3].ridx = 1
    /\ matches[4].kind = "RemoteOnly" /\ matches[4].ridx = 2

====
